---- MODULE Spec2Model ----
(***************************************************************************)
(* The CamillaDataset migration of src/putData.py: CamillaMigrationManager *)
(* (discovery, schema loading, the per-table import loop with its          *)
(* create-then-patch of every record, the identifier registry) over the    *)
(* destination client of src/components/baserow_client.py.                 *)
(*                                                                         *)
(* Python strings the code computes on (startswith, lower, title, replace, *)
(* isdigit, f-strings) are sequences of one-character strings; names that  *)
(* only serve as dictionary keys are TLA+ strings, and Chars gives their   *)
(* characters wherever the code looks inside them.                         *)
(***************************************************************************)
EXTENDS Integers, Sequences, FiniteSets, TLC

\* ------------------------------------------------------------------ bounds

\* At most this many records in one source JSON file.
MaxRecords == 2
\* At most this many records in all the source JSON files of one run.
MaxTotalRecords == 2
\* At most this many source JSON files exist in the data directory.
MaxFiles == 2
\* At most this many rows in a destination table before the run.
MaxPreRows == 1
MaxLinkedRecords == 3

\* ----------------------------------------------------------------- strings

CharsTable ==
       ("" :> <<>>)
    @@ ("1961" :> <<"1", "9", "6", "1">>)
    @@ ("5" :> <<"5">>)
    @@ ("Abuja" :> <<"A", "b", "u", "j", "a">>)
    @@ ("Actions-timeline" :> <<"A", "c", "t", "i", "o", "n", "s", "-", "t", "i", "m", "e", "l", "i", "n", "e">>)
    @@ ("Actions_Timeline" :> <<"A", "c", "t", "i", "o", "n", "s", "_", "T", "i", "m", "e", "l", "i", "n", "e">>)
    @@ ("Actions_timeline" :> <<"A", "c", "t", "i", "o", "n", "s", "_", "t", "i", "m", "e", "l", "i", "n", "e">>)
    @@ ("Ann" :> <<"A", "n", "n">>)
    @@ ("Attachment" :> <<"A", "t", "t", "a", "c", "h", "m", "e", "n", "t">>)
    @@ ("CreatedAt" :> <<"C", "r", "e", "a", "t", "e", "d", "A", "t">>)
    @@ ("Date_recorded" :> <<"D", "a", "t", "e", "_", "r", "e", "c", "o", "r", "d", "e", "d">>)
    @@ ("Depot" :> <<"D", "e", "p", "o", "t">>)
    @@ ("Director" :> <<"D", "i", "r", "e", "c", "t", "o", "r">>)
    @@ ("Discursive-oil" :> <<"D", "i", "s", "c", "u", "r", "s", "i", "v", "e", "-", "o", "i", "l">>)
    @@ ("Discursive_Oil" :> <<"D", "i", "s", "c", "u", "r", "s", "i", "v", "e", "_", "O", "i", "l">>)
    @@ ("Discursive_oil" :> <<"D", "i", "s", "c", "u", "r", "s", "i", "v", "e", "_", "o", "i", "l">>)
    @@ ("Ecosystem" :> <<"E", "c", "o", "s", "y", "s", "t", "e", "m">>)
    @@ ("Entity" :> <<"E", "n", "t", "i", "t", "y">>)
    @@ ("Exploration License" :> <<"E", "x", "p", "l", "o", "r", "a", "t", "i", "o", "n", " ", "L", "i", "c", "e", "n", "s", "e">>)
    @@ ("Id" :> <<"I", "d">>)
    @@ ("Infrastructure" :> <<"I", "n", "f", "r", "a", "s", "t", "r", "u", "c", "t", "u", "r", "e">>)
    @@ ("Lagos" :> <<"L", "a", "g", "o", "s">>)
    @@ ("Letter" :> <<"L", "e", "t", "t", "e", "r">>)
    @@ ("Licenses" :> <<"L", "i", "c", "e", "n", "s", "e", "s">>)
    @@ ("Location" :> <<"L", "o", "c", "a", "t", "i", "o", "n">>)
    @@ ("Memory" :> <<"M", "e", "m", "o", "r", "y">>)
    @@ ("NB" :> <<"N", "B">>)
    @@ ("NOTES" :> <<"N", "O", "T", "E", "S">>)
    @@ ("Name" :> <<"N", "a", "m", "e">>)
    @@ ("People" :> <<"P", "e", "o", "p", "l", "e">>)
    @@ ("Pipeline" :> <<"P", "i", "p", "e", "l", "i", "n", "e">>)
    @@ ("Related-events" :> <<"R", "e", "l", "a", "t", "e", "d", "-", "e", "v", "e", "n", "t", "s">>)
    @@ ("Related_Events" :> <<"R", "e", "l", "a", "t", "e", "d", "_", "E", "v", "e", "n", "t", "s">>)
    @@ ("Related_events" :> <<"R", "e", "l", "a", "t", "e", "d", "_", "e", "v", "e", "n", "t", "s">>)
    @@ ("Role" :> <<"R", "o", "l", "e">>)
    @@ ("Source" :> <<"S", "o", "u", "r", "c", "e">>)
    @@ ("Source_date" :> <<"S", "o", "u", "r", "c", "e", "_", "d", "a", "t", "e">>)
    @@ ("Title" :> <<"T", "i", "t", "l", "e">>)
    @@ ("Transaction type" :> <<"T", "r", "a", "n", "s", "a", "c", "t", "i", "o", "n", " ", "t", "y", "p", "e">>)
    @@ ("Transactions" :> <<"T", "r", "a", "n", "s", "a", "c", "t", "i", "o", "n", "s">>)
    @@ ("UpdatedAt" :> <<"U", "p", "d", "a", "t", "e", "d", "A", "t">>)
    @@ ("_nc_m2m_" :> <<"_", "n", "c", "_", "m", "2", "m", "_">>)
    @@ ("_nc_m2m_actions-timelin_people" :> <<"_", "n", "c", "_", "m", "2", "m", "_", "a", "c", "t", "i", "o", "n", "s", "-", "t", "i", "m", "e", "l", "i", "n", "_", "p", "e", "o", "p", "l", "e">>)
    @@ ("_nc_m2m_discursive_oil_primary_sources" :> <<"_", "n", "c", "_", "m", "2", "m", "_", "d", "i", "s", "c", "u", "r", "s", "i", "v", "e", "_", "o", "i", "l", "_", "p", "r", "i", "m", "a", "r", "y", "_", "s", "o", "u", "r", "c", "e", "s">>)
    @@ ("_nc_m2m_ecosystem_conse_infrastructures" :> <<"_", "n", "c", "_", "m", "2", "m", "_", "e", "c", "o", "s", "y", "s", "t", "e", "m", "_", "c", "o", "n", "s", "e", "_", "i", "n", "f", "r", "a", "s", "t", "r", "u", "c", "t", "u", "r", "e", "s">>)
    @@ ("_nc_m2m_entity_infrastructures" :> <<"_", "n", "c", "_", "m", "2", "m", "_", "e", "n", "t", "i", "t", "y", "_", "i", "n", "f", "r", "a", "s", "t", "r", "u", "c", "t", "u", "r", "e", "s">>)
    @@ ("_nc_m2m_infrastructure_discursive_oils" :> <<"_", "n", "c", "_", "m", "2", "m", "_", "i", "n", "f", "r", "a", "s", "t", "r", "u", "c", "t", "u", "r", "e", "_", "d", "i", "s", "c", "u", "r", "s", "i", "v", "e", "_", "o", "i", "l", "s">>)
    @@ ("_nc_m2m_infrastructure_locations" :> <<"_", "n", "c", "_", "m", "2", "m", "_", "i", "n", "f", "r", "a", "s", "t", "r", "u", "c", "t", "u", "r", "e", "_", "l", "o", "c", "a", "t", "i", "o", "n", "s">>)
    @@ ("_nc_m2m_people_roles" :> <<"_", "n", "c", "_", "m", "2", "m", "_", "p", "e", "o", "p", "l", "e", "_", "r", "o", "l", "e", "s">>)
    @@ ("_nc_m2m_related_events_infrastructures" :> <<"_", "n", "c", "_", "m", "2", "m", "_", "r", "e", "l", "a", "t", "e", "d", "_", "e", "v", "e", "n", "t", "s", "_", "i", "n", "f", "r", "a", "s", "t", "r", "u", "c", "t", "u", "r", "e", "s">>)
    @@ ("_nc_m2m_related_events_people" :> <<"_", "n", "c", "_", "m", "2", "m", "_", "r", "e", "l", "a", "t", "e", "d", "_", "e", "v", "e", "n", "t", "s", "_", "p", "e", "o", "p", "l", "e">>)
    @@ ("_nc_m2m_role_entities" :> <<"_", "n", "c", "_", "m", "2", "m", "_", "r", "o", "l", "e", "_", "e", "n", "t", "i", "t", "i", "e", "s">>)
    @@ ("_nc_m2m_role_locations" :> <<"_", "n", "c", "_", "m", "2", "m", "_", "r", "o", "l", "e", "_", "l", "o", "c", "a", "t", "i", "o", "n", "s">>)
    @@ ("_nc_m2m_transactions_discursive_oils" :> <<"_", "n", "c", "_", "m", "2", "m", "_", "t", "r", "a", "n", "s", "a", "c", "t", "i", "o", "n", "s", "_", "d", "i", "s", "c", "u", "r", "s", "i", "v", "e", "_", "o", "i", "l", "s">>)
    @@ ("_nc_m2m_transactions_entities" :> <<"_", "n", "c", "_", "m", "2", "m", "_", "t", "r", "a", "n", "s", "a", "c", "t", "i", "o", "n", "s", "_", "e", "n", "t", "i", "t", "i", "e", "s">>)
    @@ ("_nc_m2m_transactions_people" :> <<"_", "n", "c", "_", "m", "2", "m", "_", "t", "r", "a", "n", "s", "a", "c", "t", "i", "o", "n", "s", "_", "p", "e", "o", "p", "l", "e">>)
    @@ ("_nc_m2m_transactions_primary_sources" :> <<"_", "n", "c", "_", "m", "2", "m", "_", "t", "r", "a", "n", "s", "a", "c", "t", "i", "o", "n", "s", "_", "p", "r", "i", "m", "a", "r", "y", "_", "s", "o", "u", "r", "c", "e", "s">>)
    @@ ("actions_timeline_id" :> <<"a", "c", "t", "i", "o", "n", "s", "_", "t", "i", "m", "e", "l", "i", "n", "e", "_", "i", "d">>)
    @@ ("activity focus" :> <<"a", "c", "t", "i", "v", "i", "t", "y", " ", "f", "o", "c", "u", "s">>)
    @@ ("activity_focus" :> <<"a", "c", "t", "i", "v", "i", "t", "y", "_", "f", "o", "c", "u", "s">>)
    @@ ("admin_level_country" :> <<"a", "d", "m", "i", "n", "_", "l", "e", "v", "e", "l", "_", "c", "o", "u", "n", "t", "r", "y">>)
    @@ ("attachment" :> <<"a", "t", "t", "a", "c", "h", "m", "e", "n", "t">>)
    @@ ("author" :> <<"a", "u", "t", "h", "o", "r">>)
    @@ ("bar" :> <<"b", "a", "r">>)
    @@ ("communication_date" :> <<"c", "o", "m", "m", "u", "n", "i", "c", "a", "t", "i", "o", "n", "_", "d", "a", "t", "e">>)
    @@ ("consequence_communities" :> <<"c", "o", "n", "s", "e", "q", "u", "e", "n", "c", "e", "_", "c", "o", "m", "m", "u", "n", "i", "t", "i", "e", "s">>)
    @@ ("consequence_positive_negative" :> <<"c", "o", "n", "s", "e", "q", "u", "e", "n", "c", "e", "_", "p", "o", "s", "i", "t", "i", "v", "e", "_", "n", "e", "g", "a", "t", "i", "v", "e">>)
    @@ ("consequence_type" :> <<"c", "o", "n", "s", "e", "q", "u", "e", "n", "c", "e", "_", "t", "y", "p", "e">>)
    @@ ("createdat" :> <<"c", "r", "e", "a", "t", "e", "d", "a", "t">>)
    @@ ("current status" :> <<"c", "u", "r", "r", "e", "n", "t", " ", "s", "t", "a", "t", "u", "s">>)
    @@ ("current_status" :> <<"c", "u", "r", "r", "e", "n", "t", "_", "s", "t", "a", "t", "u", "s">>)
    @@ ("date" :> <<"d", "a", "t", "e">>)
    @@ ("date_recorded" :> <<"d", "a", "t", "e", "_", "r", "e", "c", "o", "r", "d", "e", "d">>)
    @@ ("department" :> <<"d", "e", "p", "a", "r", "t", "m", "e", "n", "t">>)
    @@ ("description" :> <<"d", "e", "s", "c", "r", "i", "p", "t", "i", "o", "n">>)
    @@ ("descriptive_name" :> <<"d", "e", "s", "c", "r", "i", "p", "t", "i", "v", "e", "_", "n", "a", "m", "e">>)
    @@ ("discursive_oil" :> <<"d", "i", "s", "c", "u", "r", "s", "i", "v", "e", "_", "o", "i", "l">>)
    @@ ("discursive_oil_copy" :> <<"d", "i", "s", "c", "u", "r", "s", "i", "v", "e", "_", "o", "i", "l", "_", "c", "o", "p", "y">>)
    @@ ("discursive_oil_id" :> <<"d", "i", "s", "c", "u", "r", "s", "i", "v", "e", "_", "o", "i", "l", "_", "i", "d">>)
    @@ ("discursive_oil_id1" :> <<"d", "i", "s", "c", "u", "r", "s", "i", "v", "e", "_", "o", "i", "l", "_", "i", "d", "1">>)
    @@ ("ecosystem_id" :> <<"e", "c", "o", "s", "y", "s", "t", "e", "m", "_", "i", "d">>)
    @@ ("end" :> <<"e", "n", "d">>)
    @@ ("end-date" :> <<"e", "n", "d", "-", "d", "a", "t", "e">>)
    @@ ("end_date" :> <<"e", "n", "d", "_", "d", "a", "t", "e">>)
    @@ ("entity" :> <<"e", "n", "t", "i", "t", "y">>)
    @@ ("entity_id" :> <<"e", "n", "t", "i", "t", "y", "_", "i", "d">>)
    @@ ("entity_national_affiliation" :> <<"e", "n", "t", "i", "t", "y", "_", "n", "a", "t", "i", "o", "n", "a", "l", "_", "a", "f", "f", "i", "l", "i", "a", "t", "i", "o", "n">>)
    @@ ("entity_type (past)" :> <<"e", "n", "t", "i", "t", "y", "_", "t", "y", "p", "e", " ", "(", "p", "a", "s", "t", ")">>)
    @@ ("entity_type_past" :> <<"e", "n", "t", "i", "t", "y", "_", "t", "y", "p", "e", "_", "p", "a", "s", "t">>)
    @@ ("established" :> <<"e", "s", "t", "a", "b", "l", "i", "s", "h", "e", "d">>)
    @@ ("established-date" :> <<"e", "s", "t", "a", "b", "l", "i", "s", "h", "e", "d", "-", "d", "a", "t", "e">>)
    @@ ("established_date" :> <<"e", "s", "t", "a", "b", "l", "i", "s", "h", "e", "d", "_", "d", "a", "t", "e">>)
    @@ ("event_date_end" :> <<"e", "v", "e", "n", "t", "_", "d", "a", "t", "e", "_", "e", "n", "d">>)
    @@ ("event_date_start" :> <<"e", "v", "e", "n", "t", "_", "d", "a", "t", "e", "_", "s", "t", "a", "r", "t">>)
    @@ ("event_title" :> <<"e", "v", "e", "n", "t", "_", "t", "i", "t", "l", "e">>)
    @@ ("event_type" :> <<"e", "v", "e", "n", "t", "_", "t", "y", "p", "e">>)
    @@ ("exploration_license" :> <<"e", "x", "p", "l", "o", "r", "a", "t", "i", "o", "n", "_", "l", "i", "c", "e", "n", "s", "e">>)
    @@ ("field_" :> <<"f", "i", "e", "l", "d", "_">>)
    @@ ("first_name" :> <<"f", "i", "r", "s", "t", "_", "n", "a", "m", "e">>)
    @@ ("founded" :> <<"f", "o", "u", "n", "d", "e", "d">>)
    @@ ("geographic_scope" :> <<"g", "e", "o", "g", "r", "a", "p", "h", "i", "c", "_", "s", "c", "o", "p", "e">>)
    @@ ("infrastructure" :> <<"i", "n", "f", "r", "a", "s", "t", "r", "u", "c", "t", "u", "r", "e">>)
    @@ ("infrastructure_id" :> <<"i", "n", "f", "r", "a", "s", "t", "r", "u", "c", "t", "u", "r", "e", "_", "i", "d">>)
    @@ ("infrastructure_name" :> <<"i", "n", "f", "r", "a", "s", "t", "r", "u", "c", "t", "u", "r", "e", "_", "n", "a", "m", "e">>)
    @@ ("infrastructure_type" :> <<"i", "n", "f", "r", "a", "s", "t", "r", "u", "c", "t", "u", "r", "e", "_", "t", "y", "p", "e">>)
    @@ ("last_name1" :> <<"l", "a", "s", "t", "_", "n", "a", "m", "e", "1">>)
    @@ ("latitude (N)" :> <<"l", "a", "t", "i", "t", "u", "d", "e", " ", "(", "N", ")">>)
    @@ ("latitude_n" :> <<"l", "a", "t", "i", "t", "u", "d", "e", "_", "n">>)
    @@ ("legacy_code" :> <<"l", "e", "g", "a", "c", "y", "_", "c", "o", "d", "e">>)
    @@ ("linked_actions_timeline" :> <<"l", "i", "n", "k", "e", "d", "_", "a", "c", "t", "i", "o", "n", "s", "_", "t", "i", "m", "e", "l", "i", "n", "e">>)
    @@ ("linked_author" :> <<"l", "i", "n", "k", "e", "d", "_", "a", "u", "t", "h", "o", "r">>)
    @@ ("linked_discursive_oil" :> <<"l", "i", "n", "k", "e", "d", "_", "d", "i", "s", "c", "u", "r", "s", "i", "v", "e", "_", "o", "i", "l">>)
    @@ ("linked_ecosystem" :> <<"l", "i", "n", "k", "e", "d", "_", "e", "c", "o", "s", "y", "s", "t", "e", "m">>)
    @@ ("linked_entities" :> <<"l", "i", "n", "k", "e", "d", "_", "e", "n", "t", "i", "t", "i", "e", "s">>)
    @@ ("linked_infrastructures" :> <<"l", "i", "n", "k", "e", "d", "_", "i", "n", "f", "r", "a", "s", "t", "r", "u", "c", "t", "u", "r", "e", "s">>)
    @@ ("linked_location" :> <<"l", "i", "n", "k", "e", "d", "_", "l", "o", "c", "a", "t", "i", "o", "n">>)
    @@ ("linked_locations" :> <<"l", "i", "n", "k", "e", "d", "_", "l", "o", "c", "a", "t", "i", "o", "n", "s">>)
    @@ ("linked_people" :> <<"l", "i", "n", "k", "e", "d", "_", "p", "e", "o", "p", "l", "e">>)
    @@ ("linked_recipient" :> <<"l", "i", "n", "k", "e", "d", "_", "r", "e", "c", "i", "p", "i", "e", "n", "t">>)
    @@ ("linked_related_events" :> <<"l", "i", "n", "k", "e", "d", "_", "r", "e", "l", "a", "t", "e", "d", "_", "e", "v", "e", "n", "t", "s">>)
    @@ ("linked_roles" :> <<"l", "i", "n", "k", "e", "d", "_", "r", "o", "l", "e", "s">>)
    @@ ("linked_sources" :> <<"l", "i", "n", "k", "e", "d", "_", "s", "o", "u", "r", "c", "e", "s">>)
    @@ ("linked_transactions" :> <<"l", "i", "n", "k", "e", "d", "_", "t", "r", "a", "n", "s", "a", "c", "t", "i", "o", "n", "s">>)
    @@ ("location" :> <<"l", "o", "c", "a", "t", "i", "o", "n">>)
    @@ ("location_id" :> <<"l", "o", "c", "a", "t", "i", "o", "n", "_", "i", "d">>)
    @@ ("longitude (E)" :> <<"l", "o", "n", "g", "i", "t", "u", "d", "e", " ", "(", "E", ")">>)
    @@ ("longitude_e" :> <<"l", "o", "n", "g", "i", "t", "u", "d", "e", "_", "e">>)
    @@ ("memory_title" :> <<"m", "e", "m", "o", "r", "y", "_", "t", "i", "t", "l", "e">>)
    @@ ("memory_type" :> <<"m", "e", "m", "o", "r", "y", "_", "t", "y", "p", "e">>)
    @@ ("name" :> <<"n", "a", "m", "e">>)
    @@ ("nb" :> <<"n", "b">>)
    @@ ("notes" :> <<"n", "o", "t", "e", "s">>)
    @@ ("object_" :> <<"o", "b", "j", "e", "c", "t", "_">>)
    @@ ("object_author" :> <<"o", "b", "j", "e", "c", "t", "_", "a", "u", "t", "h", "o", "r">>)
    @@ ("object_recipient" :> <<"o", "b", "j", "e", "c", "t", "_", "r", "e", "c", "i", "p", "i", "e", "n", "t">>)
    @@ ("obsidian_reference" :> <<"o", "b", "s", "i", "d", "i", "a", "n", "_", "r", "e", "f", "e", "r", "e", "n", "c", "e">>)
    @@ ("operating_locations" :> <<"o", "p", "e", "r", "a", "t", "i", "n", "g", "_", "l", "o", "c", "a", "t", "i", "o", "n", "s">>)
    @@ ("people" :> <<"p", "e", "o", "p", "l", "e">>)
    @@ ("people_id" :> <<"p", "e", "o", "p", "l", "e", "_", "i", "d">>)
    @@ ("port city" :> <<"p", "o", "r", "t", " ", "c", "i", "t", "y">>)
    @@ ("primary_sources_id" :> <<"p", "r", "i", "m", "a", "r", "y", "_", "s", "o", "u", "r", "c", "e", "s", "_", "i", "d">>)
    @@ ("product" :> <<"p", "r", "o", "d", "u", "c", "t">>)
    @@ ("recipient" :> <<"r", "e", "c", "i", "p", "i", "e", "n", "t">>)
    @@ ("regulated-activity" :> <<"r", "e", "g", "u", "l", "a", "t", "e", "d", "-", "a", "c", "t", "i", "v", "i", "t", "y">>)
    @@ ("regulated_activity" :> <<"r", "e", "g", "u", "l", "a", "t", "e", "d", "_", "a", "c", "t", "i", "v", "i", "t", "y">>)
    @@ ("related_events_id" :> <<"r", "e", "l", "a", "t", "e", "d", "_", "e", "v", "e", "n", "t", "s", "_", "i", "d">>)
    @@ ("related_feeling" :> <<"r", "e", "l", "a", "t", "e", "d", "_", "f", "e", "e", "l", "i", "n", "g">>)
    @@ ("role" :> <<"r", "o", "l", "e">>)
    @@ ("role_id" :> <<"r", "o", "l", "e", "_", "i", "d">>)
    @@ ("source" :> <<"s", "o", "u", "r", "c", "e">>)
    @@ ("source_date" :> <<"s", "o", "u", "r", "c", "e", "_", "d", "a", "t", "e">>)
    @@ ("source_obsidian" :> <<"s", "o", "u", "r", "c", "e", "_", "o", "b", "s", "i", "d", "i", "a", "n">>)
    @@ ("start" :> <<"s", "t", "a", "r", "t">>)
    @@ ("start-date" :> <<"s", "t", "a", "r", "t", "-", "d", "a", "t", "e">>)
    @@ ("start_date" :> <<"s", "t", "a", "r", "t", "_", "d", "a", "t", "e">>)
    @@ ("status" :> <<"s", "t", "a", "t", "u", "s">>)
    @@ ("subdepartment" :> <<"s", "u", "b", "d", "e", "p", "a", "r", "t", "m", "e", "n", "t">>)
    @@ ("title" :> <<"t", "i", "t", "l", "e">>)
    @@ ("transaction_type" :> <<"t", "r", "a", "n", "s", "a", "c", "t", "i", "o", "n", "_", "t", "y", "p", "e">>)
    @@ ("transactions_id" :> <<"t", "r", "a", "n", "s", "a", "c", "t", "i", "o", "n", "s", "_", "i", "d">>)
    @@ ("type of source" :> <<"t", "y", "p", "e", " ", "o", "f", " ", "s", "o", "u", "r", "c", "e">>)
    @@ ("type-of-action" :> <<"t", "y", "p", "e", "-", "o", "f", "-", "a", "c", "t", "i", "o", "n">>)
    @@ ("type-source" :> <<"t", "y", "p", "e", "-", "s", "o", "u", "r", "c", "e">>)
    @@ ("type_of_action" :> <<"t", "y", "p", "e", "_", "o", "f", "_", "a", "c", "t", "i", "o", "n">>)
    @@ ("type_of_source" :> <<"t", "y", "p", "e", "_", "o", "f", "_", "s", "o", "u", "r", "c", "e">>)
    @@ ("type_source" :> <<"t", "y", "p", "e", "_", "s", "o", "u", "r", "c", "e">>)
    @@ ("unique-identifier" :> <<"u", "n", "i", "q", "u", "e", "-", "i", "d", "e", "n", "t", "i", "f", "i", "e", "r">>)
    @@ ("unique_identifier" :> <<"u", "n", "i", "q", "u", "e", "_", "i", "d", "e", "n", "t", "i", "f", "i", "e", "r">>)
    @@ ("updatedat" :> <<"u", "p", "d", "a", "t", "e", "d", "a", "t">>)

field_mappings ==
       ("Location" :> {
          <<"location", "Name">>,
          <<"notes", "notes">>,
          <<"latitude (N)", "latitude_n">>,
          <<"longitude (E)", "longitude_e">>,
          <<"admin_level_country", "admin_level_country">>})
    @@ ("People" :> {
          <<"first_name", "Name">>,
          <<"last_name1", "last_name1">>,
          <<"notes", "notes">>,
          <<"discursive_oil_id", "discursive_oil_id">>,
          <<"discursive_oil_id1", "discursive_oil_id1">>,
          <<"attachment", "attachment">>,
          <<"discursive_oil", "discursive_oil">>,
          <<"discursive_oil_copy", "discursive_oil_copy">>})
    @@ ("Entity" :> {
          <<"name", "Name">>,
          <<"operating_locations", "operating_locations">>,
          <<"entity_national_affiliation", "entity_national_affiliation">>,
          <<"descriptive_name", "descriptive_name">>,
          <<"entity_type (past)", "entity_type_past">>,
          <<"established-date", "established_date">>,
          <<"activity focus", "activity_focus">>,
          <<"notes", "notes">>,
          <<"current status", "current_status">>,
          <<"Attachment", "attachment">>})
    @@ ("Role" :> {
          <<"role", "Name">>,
          <<"title", "title">>,
          <<"description", "description">>,
          <<"department", "department">>,
          <<"subdepartment", "subdepartment">>,
          <<"notes", "notes">>,
          <<"start_date", "start_date">>,
          <<"end_date", "end_date">>})
    @@ ("Source" :> {
          <<"title", "Name">>,
          <<"unique-identifier", "unique_identifier">>,
          <<"NB", "nb">>,
          <<"Source_date", "source_date">>,
          <<"author", "author">>,
          <<"type-source", "type_source">>})
    @@ ("Infrastructure" :> {
          <<"infrastructure_name", "Name">>,
          <<"infrastructure_type", "infrastructure_type">>,
          <<"notes", "notes">>,
          <<"Attachment", "attachment">>,
          <<"status", "status">>})
    @@ ("Licenses" :> {
          <<"start-date", "start_date">>,
          <<"geographic_scope", "geographic_scope">>,
          <<"Exploration License", "exploration_license">>})
    @@ ("Ecosystem" :> {
          <<"title", "Name">>,
          <<"consequence_type", "consequence_type">>,
          <<"consequence_positive_negative", "consequence_positive_negative">>,
          <<"consequence_communities", "consequence_communities">>,
          <<"notes", "notes">>})
    @@ ("Transactions" :> {
          <<"Title", "Name">>,
          <<"Transaction type", "transaction_type">>,
          <<"Date_recorded", "date_recorded">>,
          <<"notes", "notes">>,
          <<"regulated-activity", "regulated_activity">>})
    @@ ("Actions-timeline" :> {
          <<"title", "Name">>,
          <<"start-date", "start_date">>,
          <<"end-date", "end_date">>,
          <<"product", "product">>,
          <<"type-of-action", "type_of_action">>})
    @@ ("Discursive-oil" :> {
          <<"Title", "Name">>,
          <<"communication_date", "communication_date">>,
          <<"related_feeling", "related_feeling">>,
          <<"notes", "notes">>,
          <<"obsidian_reference", "obsidian_reference">>,
          <<"type of source", "type_of_source">>,
          <<"author", "author">>,
          <<"recipient", "recipient">>})
    @@ ("Related-events" :> {
          <<"event_title", "Name">>,
          <<"event_date_start", "event_date_start">>,
          <<"event_date_end", "event_date_end">>,
          <<"event_type", "event_type">>,
          <<"source_obsidian", "source_obsidian">>,
          <<"notes", "notes">>})
    @@ ("Memory" :> {
          <<"memory_title", "Name">>,
          <<"memory_type", "memory_type">>,
          <<"date_recorded", "date_recorded">>,
          <<"description", "description">>,
          <<"notes", "notes">>})

relationship_mappings ==
       ("Infrastructure" :> {
          [key |-> "_nc_m2m_infrastructure_locations", field_name |-> "linked_location",
           source_table |-> "Location", direct_id |-> FALSE, id_field |-> "location_id"],
          [key |-> "_nc_m2m_entity_infrastructures", field_name |-> "linked_entities",
           source_table |-> "Entity", direct_id |-> FALSE, id_field |-> "entity_id"],
          [key |-> "_nc_m2m_infrastructure_discursive_oils", field_name |-> "linked_discursive_oil",
           source_table |-> "Discursive-oil", direct_id |-> FALSE, id_field |-> "discursive_oil_id"],
          [key |-> "_nc_m2m_ecosystem_conse_infrastructures", field_name |-> "linked_ecosystem",
           source_table |-> "Ecosystem", direct_id |-> FALSE, id_field |-> "ecosystem_id"],
          [key |-> "_nc_m2m_related_events_infrastructures", field_name |-> "linked_related_events",
           source_table |-> "Related-events", direct_id |-> FALSE, id_field |-> "related_events_id"]})
    @@ ("Transactions" :> {
          [key |-> "_nc_m2m_transactions_entities", field_name |-> "linked_entities",
           source_table |-> "Entity", direct_id |-> FALSE, id_field |-> "entity_id"],
          [key |-> "_nc_m2m_transactions_people", field_name |-> "linked_people",
           source_table |-> "People", direct_id |-> FALSE, id_field |-> "people_id"],
          [key |-> "_nc_m2m_transactions_primary_sources", field_name |-> "linked_sources",
           source_table |-> "Source", direct_id |-> FALSE, id_field |-> "primary_sources_id"],
          [key |-> "_nc_m2m_transactions_discursive_oils", field_name |-> "linked_discursive_oil",
           source_table |-> "Discursive-oil", direct_id |-> FALSE, id_field |-> "discursive_oil_id"]})
    @@ ("Discursive-oil" :> {
          [key |-> "object_author", field_name |-> "linked_author",
           source_table |-> "People", direct_id |-> TRUE, id_field |-> ""],
          [key |-> "object_recipient", field_name |-> "linked_recipient",
           source_table |-> "People", direct_id |-> TRUE, id_field |-> ""],
          [key |-> "_nc_m2m_discursive_oil_primary_sources", field_name |-> "linked_sources",
           source_table |-> "Source", direct_id |-> FALSE, id_field |-> "primary_sources_id"]})
    @@ ("People" :> {
          [key |-> "_nc_m2m_people_roles", field_name |-> "linked_roles",
           source_table |-> "Role", direct_id |-> FALSE, id_field |-> "role_id"],
          [key |-> "_nc_m2m_related_events_people", field_name |-> "linked_related_events",
           source_table |-> "Related-events", direct_id |-> FALSE, id_field |-> "related_events_id"],
          [key |-> "_nc_m2m_actions-timelin_people", field_name |-> "linked_actions_timeline",
           source_table |-> "Actions-timeline", direct_id |-> FALSE, id_field |-> "actions_timeline_id"],
          [key |-> "_nc_m2m_transactions_people", field_name |-> "linked_transactions",
           source_table |-> "Transactions", direct_id |-> FALSE, id_field |-> "transactions_id"]})
    @@ ("Role" :> {
          [key |-> "_nc_m2m_people_roles", field_name |-> "linked_people",
           source_table |-> "People", direct_id |-> FALSE, id_field |-> "people_id"],
          [key |-> "_nc_m2m_role_entities", field_name |-> "linked_entities",
           source_table |-> "Entity", direct_id |-> FALSE, id_field |-> "entity_id"],
          [key |-> "_nc_m2m_role_locations", field_name |-> "linked_locations",
           source_table |-> "Location", direct_id |-> FALSE, id_field |-> "location_id"]})
    @@ ("Actions-timeline" :> {
          [key |-> "_nc_m2m_actions-timelin_people", field_name |-> "linked_people",
           source_table |-> "People", direct_id |-> FALSE, id_field |-> "people_id"]})
    @@ ("Related-events" :> {
          [key |-> "_nc_m2m_related_events_people", field_name |-> "linked_people",
           source_table |-> "People", direct_id |-> FALSE, id_field |-> "people_id"],
          [key |-> "_nc_m2m_related_events_infrastructures", field_name |-> "linked_infrastructures",
           source_table |-> "Infrastructure", direct_id |-> FALSE, id_field |-> "infrastructure_id"]})
    @@ ("Memory" :> {})

expected_tables ==
    <<"Location",
      "Role",
      "Source",
      "People",
      "Entity",
      "Infrastructure",
      "Licenses",
      "Ecosystem",
      "Transactions",
      "Actions-timeline",
      "Discursive-oil",
      "Related-events",
      "Memory">>

import_order ==
    <<<<"Location_data.json", "Location">>,
      <<"Role_data.json", "Role">>,
      <<"Source_data.json", "Source">>,
      <<"People_data.json", "People">>,
      <<"Entity_data.json", "Entity">>,
      <<"Infrastructure_data.json", "Infrastructure">>,
      <<"Licenses_data.json", "Licenses">>,
      <<"Ecosystem_data.json", "Ecosystem">>,
      <<"Transactions_data.json", "Transactions">>,
      <<"Actions-timeline_data.json", "Actions-timeline">>,
      <<"Discursive-oil_data.json", "Discursive-oil">>,
      <<"Related-events_data.json", "Related-events">>,
      <<"Memory_data.json", "Memory">>>>

Chars(s) == CharsTable[s]

UpperLetters ==
    <<"A", "B", "C", "D", "E", "F", "G", "H", "I", "J", "K", "L", "M",
      "N", "O", "P", "Q", "R", "S", "T", "U", "V", "W", "X", "Y", "Z">>

LowerLetters ==
    <<"a", "b", "c", "d", "e", "f", "g", "h", "i", "j", "k", "l", "m",
      "n", "o", "p", "q", "r", "s", "t", "u", "v", "w", "x", "y", "z">>

Digits == <<"0", "1", "2", "3", "4", "5", "6", "7", "8", "9">>

IsUpperChar(c) == \E i \in 1..26 : UpperLetters[i] = c

IsLowerChar(c) == \E i \in 1..26 : LowerLetters[i] = c

IsDigitChar(c) == \E i \in 1..10 : Digits[i] = c

\* str.lower() and str.upper() on one character.
LowerChar(c) ==
    IF IsUpperChar(c)
    THEN LowerLetters[CHOOSE i \in 1..26 : UpperLetters[i] = c]
    ELSE c

UpperChar(c) ==
    IF IsLowerChar(c)
    THEN UpperLetters[CHOOSE i \in 1..26 : LowerLetters[i] = c]
    ELSE c

\* str.lower()
Lower(s) == [i \in 1..Len(s) |-> LowerChar(s[i])]

\* str.title(): a letter that follows a non-letter (or starts the string) is
\* upper-cased, every other letter lower-cased.
Title(s) ==
    [i \in 1..Len(s) |->
        IF i = 1 \/ ~(IsUpperChar(s[i - 1]) \/ IsLowerChar(s[i - 1]))
        THEN UpperChar(s[i])
        ELSE LowerChar(s[i])]

\* str.replace(a, b) for one-character a and b.
ReplaceChar(s, a, b) == [i \in 1..Len(s) |-> IF s[i] = a THEN b ELSE s[i]]

\* str.startswith(p)
StartsWith(s, p) == Len(s) >= Len(p) /\ SubSeq(s, 1, Len(p)) = p

\* p in s
Contains(s, p) ==
    \E i \in 1..(Len(s) - Len(p) + 1) : SubSeq(s, i, i + Len(p) - 1) = p

\* str.isdigit()
IsDigit(s) == Len(s) > 0 /\ \A i \in 1..Len(s) : IsDigitChar(s[i])

\* str(n) of a non-negative integer.
RECURSIVE IntToStr(_)
IntToStr(n) ==
    IF n < 10 THEN <<Digits[n + 1]>>
    ELSE IntToStr(n \div 10) \o <<Digits[(n % 10) + 1]>>

\* int(s) of a string of digits.
RECURSIVE StrToInt(_)
StrToInt(s) ==
    IF Len(s) = 0 THEN 0
    ELSE 10 * StrToInt(SubSeq(s, 1, Len(s) - 1))
         + (CHOOSE d \in 0..9 : Digits[d + 1] = s[Len(s)])

\* s.replace('field_', ''): the one place the code removes a prefix it has
\* itself put in front.
StripFieldPrefix(s) ==
    IF StartsWith(s, Chars("field_"))
    THEN SubSeq(s, Len(Chars("field_")) + 1, Len(s))
    ELSE s

\* The empty mapping ({} in Python).
EmptyMap == [x \in {} |-> 0]

\* ------------------------------------------------------------ JSON values

\* A JSON value: null, a string, an integer, a boolean, an object (its
\* entries name -> integer are the only ones the code reads) or a list of
\* elements, each an object or not.
VNone == [t |-> "none", s |-> <<>>, n |-> 0, d |-> <<>>, l |-> <<>>]

VStr(s) == [t |-> "str", s |-> Chars(s), n |-> 0, d |-> <<>>, l |-> <<>>]

VInt(n) == [t |-> "int", s |-> <<>>, n |-> n, d |-> <<>>, l |-> <<>>]

VBool(b) ==
    [t |-> "bool", s |-> <<>>, n |-> IF b THEN 1 ELSE 0, d |-> <<>>, l |-> <<>>]

\* An object: d is its sequence of entries [k |-> name, n |-> integer].
VDict(entries) == [t |-> "dict", s |-> <<>>, n |-> 0, d |-> entries, l |-> <<>>]

\* A list: l is its sequence of elements [isdict |-> .., d |-> entries].
VList(elems) == [t |-> "list", s |-> <<>>, n |-> 0, d |-> <<>>, l |-> elems]

\* One join row {key: id} of a many-to-many payload.
JoinRow(key, id) == [isdict |-> TRUE, d |-> <<[k |-> key, n |-> id]>>]

\* 'name' in d, and d.get(name) (NoId when the key is absent: Python's None).
NoId == -1

DictHas(d, name) == \E i \in 1..Len(d) : d[i].k = name

DictGet(d, name) ==
    IF DictHas(d, name)
    THEN d[CHOOSE i \in 1..Len(d) : d[i].k = name].n
    ELSE NoId

\* str(value) for the values a record holds.
StrOf(v) ==
    CASE v.t = "str" -> v.s
      [] v.t = "int" -> IntToStr(v.n)
      [] v.t = "bool" -> IF v.n = 1 THEN <<"T", "r", "u", "e">>
                         ELSE <<"F", "a", "l", "s", "e">>
      [] v.t = "none" -> <<"N", "o", "n", "e">>
      [] OTHER -> <<"?">>


\* ------------------------------------------------------------ schema model

\* get_field_by_name and the lookup by id return None when nothing matches.
NoField == [id |-> NoId, name |-> "", type |-> ""]

get_field_by_name_exact(schema, name) ==
    LET hits == {i \in 1..Len(schema.fields) :
                    Chars(schema.fields[i].name) = Chars(name)}
    IN IF hits = {} THEN NoField
       ELSE schema.fields[CHOOSE i \in hits : \A j \in hits : i <= j]

\* TableSchema.get_field_by_name: the first field whose name matches
\* case-insensitively.
get_field_by_name(schema, name) ==
    LET hits == {i \in 1..Len(schema.fields) :
                    Lower(Chars(schema.fields[i].name)) = Lower(Chars(name))}
    IN IF hits = {} THEN NoField
       ELSE schema.fields[CHOOSE i \in hits : \A j \in hits : i <= j]

\* next((f for f in schema.fields if f.id == field_id_number), None)
field_by_id(schema, number) ==
    LET hits == {i \in 1..Len(schema.fields) : schema.fields[i].id = number}
    IN IF hits = {} THEN NoField
       ELSE schema.fields[CHOOSE i \in hits : \A j \in hits : i <= j]

\* f"field_{field_info.id}"
FieldId(id) == Chars("field_") \o IntToStr(id)

\* dict.get(table_name, {}) on the two static tables.
FieldMappingOf(table_name) ==
    IF table_name \in DOMAIN field_mappings THEN field_mappings[table_name]
    ELSE {}

RoutingOf(table_name) ==
    IF table_name \in DOMAIN relationship_mappings
    THEN relationship_mappings[table_name]
    ELSE {}

\* create_field_mapping: source field key -> destination field id, for the
\* static entries whose destination name the schema knows.
create_field_mapping(schemas, table_name) ==
    IF table_name \notin DOMAIN schemas THEN EmptyMap
    ELSE LET schema == schemas[table_name]
             found == {p \in FieldMappingOf(table_name) :
                          get_field_by_name(schema, p[2]) # NoField}
         IN [json_field \in {p[1] : p \in found} |->
                FieldId(get_field_by_name(schema,
                    (CHOOSE p \in found : p[1] = json_field)[2]).id)]

\* ------------------------------------------------------------ normalizers

skip_fields == {"CreatedAt", "UpdatedAt", "Id"}

date_indicators ==
    {"date", "established", "start", "end", "createdat", "updatedat"}

ref_words ==
    {"people", "role", "entity", "source", "infrastructure", "location"}

\* _is_date_field
is_date_field(field_name) ==
    \E indicator \in date_indicators :
        Contains(Lower(Chars(field_name)), Chars(indicator))

IsSpaceChar(c) == c \in {" ", "\t", "\n", "\r"}

\* str.strip()
RECURSIVE Strip(_)
Strip(s) ==
    IF Len(s) = 0 THEN s
    ELSE IF IsSpaceChar(s[1]) THEN Strip(Tail(s))
    ELSE IF IsSpaceChar(s[Len(s)]) THEN Strip(SubSeq(s, 1, Len(s) - 1))
    ELSE s

\* s.split('T')[0]
BeforeT(s) ==
    LET at == {i \in 1..Len(s) : s[i] = "T"}
    IN SubSeq(s, 1, (CHOOSE i \in at : \A j \in at : i <= j) - 1)

CountChar(s, c) == Cardinality({i \in 1..Len(s) : s[i] = c})

\* Python truthiness of a JSON value.
Truthy(v) ==
    CASE v.t = "none" -> FALSE
      [] v.t = "str" -> Len(v.s) > 0
      [] v.t = "int" -> v.n # 0
      [] v.t = "bool" -> v.n = 1
      [] v.t = "dict" -> Len(v.d) > 0
      [] OTHER -> Len(v.l) > 0

VChars(s) == [t |-> "str", s |-> s, n |-> 0, d |-> <<>>, l |-> <<>>]

\* CamillaMigrationManager._normalize_date
normalize_date(value) ==
    IF ~Truthy(value) THEN VNone
    ELSE LET date_str == Strip(StrOf(value))
         IN IF Contains(date_str, <<"T">>) THEN VChars(BeforeT(date_str))
            ELSE IF Len(date_str) = 4 /\ IsDigit(date_str)
                 THEN VChars(date_str \o <<"-", "0", "1", "-", "0", "1">>)
            ELSE IF Len(date_str) = 10 /\ CountChar(date_str, "-") = 2
                 THEN VChars(date_str)
            ELSE VNone

\* CamillaMigrationManager._transform_value
transform_value(value, field_name) ==
    IF value.t = "none" \/ (value.t = "str" /\ Len(value.s) = 0) THEN VNone
    ELSE IF is_date_field(field_name) THEN normalize_date(value)
    ELSE IF value.t = "bool" THEN value
    ELSE VChars(StrOf(value))


\* \d{4}-\d{2}-\d{2} at the start of s.
IsoDateAt(s) ==
    /\ Len(s) >= 10
    /\ IsDigit(SubSeq(s, 1, 4)) /\ s[5] = "-"
    /\ IsDigit(SubSeq(s, 6, 7)) /\ s[8] = "-"
    /\ IsDigit(SubSeq(s, 9, 10))

\* pattern.match(date_str) for the p-th entry of DataTransformer's
\* date_patterns: the text matched, <<>> when the pattern does not match.
\* (date_str is stripped, so '$' stands at its very end.)
pattern_match(p, s) ==
    CASE p = 1 -> IF Len(s) = 4 /\ IsDigit(s) THEN s ELSE <<>>
      [] p = 2 -> IF IsoDateAt(s) /\ Len(s) >= 11 /\ s[11] = "T"
                  THEN SubSeq(s, 1, 11) ELSE <<>>
      [] OTHER -> IF IsoDateAt(s) /\ Len(s) = 10 THEN s ELSE <<>>

pattern_format_group(p, m) ==
    CASE p = 1 -> m \o <<"-", "0", "1", "-", "0", "1">>
      [] OTHER -> m

\* The formatter of the p-th entry of date_patterns, applied to the match.
pattern_format(p, m) ==
    CASE p = 1 -> m \o <<"-", "0", "1", "-", "0", "1">>
      [] p = 2 -> SubSeq(m, 1, 10)
      [] OTHER -> m

\* DataTransformer._normalize_date: the first pattern that matches decides.
transformer_normalize_date(value) ==
    IF ~Truthy(value) THEN VNone
    ELSE LET date_str == Strip(StrOf(value))
             hits == {p \in 1..3 : pattern_match(p, date_str) # <<>>}
         IN IF hits = {} THEN VNone
            ELSE LET first == CHOOSE p \in hits : \A q \in hits : p <= q
                 IN VChars(pattern_format(first,
                                          pattern_match(first, date_str)))

normalize_boolean_truthy(value) == Truthy(value)

\* DataTransformer._normalize_boolean
normalize_boolean(value) ==
    IF value.t = "bool" THEN value.n = 1
    ELSE Lower(StrOf(value)) \in
            {<<"t", "r", "u", "e">>, <<"1">>, <<"y", "e", "s">>, <<"o", "n">>}
\* ------------------------------------------------- records and relationships

\* A source record is a JSON object: the sequence of its entries
\* [k |-> key, v |-> value], keys distinct, in file order.
RecordHas(item, key) == \E i \in 1..Len(item) : item[i].k = key

\* item.get(key)
RecordGet(item, key) ==
    IF RecordHas(item, key)
    THEN item[CHOOSE i \in 1..Len(item) : item[i].k = key].v
    ELSE VNone

\* dict[key] = value
Put(map, key, value) ==
    [x \in DOMAIN map \cup {key} |-> IF x = key THEN value ELSE map[x]]

IsRelationOrMeta_keys(json_field, value) ==
    \/ StartsWith(Chars(json_field), Chars("_nc_m2m_"))
    \/ json_field \in skip_fields

\* transform_record_data: the entries it passes over as relationships or
\* metadata.
IsRelationOrMeta(json_field, value) ==
    \/ StartsWith(Chars(json_field), Chars("_nc_m2m_"))
    \/ json_field \in skip_fields
    \/ (value.t = "dict" /\ DictHas(value.d, "Id"))

auto_match_any(schema, json_field) == get_field_by_name(schema, json_field)

\* The automatic mapping of transform_record_data for a field the static
\* mapping does not hold: the destination field of the same name unless it
\* is a link field; NoField for "skip this field".
auto_match_field(schema, json_field) ==
    LET field_info == get_field_by_name(schema, json_field)
    IN IF field_info # NoField /\ field_info.type # "link_row"
       THEN field_info
       ELSE NoField

\* The static mapping's field survives unless the schema types it link_row.
mapped_field_allowed(schema, field_id) ==
    LET field_info == field_by_id(schema, StrToInt(StripFieldPrefix(field_id)))
    IN ~(field_info # NoField /\ field_info.type = "link_row")

\* The destination field id one entry of the record is written to, <<>> when
\* the loop of transform_record_data continues without writing it.
target_field_id(json_field, value, field_mapping, table_name, schemas) ==
    IF IsRelationOrMeta(json_field, value) THEN <<>>
    ELSE IF json_field \in DOMAIN field_mapping
    THEN IF table_name \in DOMAIN schemas
            /\ ~mapped_field_allowed(schemas[table_name], field_mapping[json_field])
         THEN <<>>
         ELSE field_mapping[json_field]
    ELSE IF table_name \in DOMAIN schemas
    THEN LET field_info == auto_match_field(schemas[table_name], json_field)
         IN IF field_info = NoField THEN <<>> ELSE FieldId(field_info.id)
    ELSE <<>>

\* transform_record_data: the create payload, destination field id -> value.
RECURSIVE transform_from(_, _, _, _, _, _)
transform_from(record, i, field_mapping, table_name, schemas, cleaned_data) ==
    IF i > Len(record) THEN cleaned_data
    ELSE LET json_field == record[i].k
             value == record[i].v
             field_id == target_field_id(json_field, value, field_mapping,
                                         table_name, schemas)
             transformed_value == transform_value(value, json_field)
         IN transform_from(record, i + 1, field_mapping, table_name, schemas,
                IF field_id # <<>> /\ transformed_value # VNone
                THEN Put(cleaned_data, field_id, transformed_value)
                ELSE cleaned_data)

transform_record_data(record, field_mapping, table_name, schemas) ==
    transform_from(record, 1, field_mapping, table_name, schemas, EmptyMap)

\* One element of a relationship payload: a join row (isdict, its entries d)
\* or a bare identifier n.
DirectId(id) == [isdict |-> FALSE, d |-> <<>>, n |-> id]

PayloadOfList(elems) ==
    [j \in 1..Len(elems) |->
        [isdict |-> elems[j].isdict, d |-> elems[j].d, n |-> NoId]]

\* extract_relationships: the entries [k |-> relationship key, v |-> payload],
\* in record order.
RECURSIVE extract_from(_, _)
extract_from(record, i) ==
    IF i > Len(record) THEN <<>>
    ELSE LET key == record[i].k
             value == record[i].v
         IN (IF StartsWith(Chars(key), Chars("_nc_m2m_")) /\ value.t = "list"
             THEN <<[k |-> Chars(key), v |-> PayloadOfList(value.l)]>>
             ELSE IF value.t = "dict" /\ DictHas(value.d, "Id")
             THEN <<[k |-> Chars("object_") \o Chars(key),
                     v |-> <<DirectId(DictGet(value.d, "Id"))>>]>>
             ELSE <<>>)
            \o extract_from(record, i + 1)

extract_relationships(record) == extract_from(record, 1)

\* self.id_mappings.get(source_table, {}).get(old_id)
registry_lookup(mappings, table, old_id) ==
    IF table \in DOMAIN mappings /\ old_id \in DOMAIN mappings[table]
    THEN mappings[table][old_id]
    ELSE NoId

\* The source ids one payload carries for a routing entry: the element itself
\* (direct_id) or the join row's id_field when that is truthy.
old_ids_of(mapping, rel_data) ==
    IF mapping.direct_id
    THEN [j \in 1..Len(rel_data) |-> rel_data[j].n]
    ELSE [j \in 1..Len(rel_data) |->
            IF rel_data[j].isdict
               /\ DictGet(rel_data[j].d, mapping.id_field) \notin {NoId, 0}
            THEN DictGet(rel_data[j].d, mapping.id_field)
            ELSE NoId]

\* A registry value is kept when it is truthy (if new_id:).
keep_new_id(new_id) == new_id # NoId /\ new_id # 0

RECURSIVE resolve_ids_prepending(_, _, _, _)
resolve_ids_prepending(old_ids, j, source_table, mappings) ==
    IF j > Len(old_ids) THEN <<>>
    ELSE LET new_id == registry_lookup(mappings, source_table, old_ids[j])
         IN resolve_ids_prepending(old_ids, j + 1, source_table, mappings)
            \o (IF keep_new_id(new_id) THEN <<new_id>> ELSE <<>>)

\* The new_ids list built for one routing entry, in payload order.
RECURSIVE resolve_ids(_, _, _, _)
resolve_ids(old_ids, j, source_table, mappings) ==
    IF j > Len(old_ids) THEN <<>>
    ELSE LET new_id == registry_lookup(mappings, source_table, old_ids[j])
         IN (IF keep_new_id(new_id) THEN <<new_id>> ELSE <<>>)
            \o resolve_ids(old_ids, j + 1, source_table, mappings)

\* The routing entry of rel_key for the table, NoRouting when it has none.
NoRouting ==
    [key |-> "", field_name |-> "", source_table |-> "",
     direct_id |-> FALSE, id_field |-> ""]

routing_entry(table_name, rel_key) ==
    LET hits == {m \in RoutingOf(table_name) : Chars(m.key) = rel_key}
    IN IF hits = {} THEN NoRouting ELSE CHOOSE m \in hits : TRUE

emit_entry_always(new_ids) == TRUE

\* Whether a resolved list is written into the result (if new_ids:).
emit_entry(new_ids) == Len(new_ids) > 0

\* map_relationships_to_baserow: destination link field id -> row ids.
RECURSIVE map_from(_, _, _, _, _, _)
map_from(relationships, i, table_name, schemas, mappings, result) ==
    IF i > Len(relationships) THEN result
    ELSE LET rel_key == relationships[i].k
             rel_data == relationships[i].v
             mapping == routing_entry(table_name, rel_key)
             field_info ==
                 IF mapping = NoRouting \/ Len(rel_data) = 0
                    \/ table_name \notin DOMAIN schemas
                 THEN NoField
                 ELSE get_field_by_name(schemas[table_name], mapping.field_name)
             new_ids == resolve_ids(old_ids_of(mapping, rel_data), 1,
                                    mapping.source_table, mappings)
         IN map_from(relationships, i + 1, table_name, schemas, mappings,
                IF field_info # NoField /\ emit_entry(new_ids)
                THEN Put(result, FieldId(field_info.id), new_ids)
                ELSE result)

map_relationships_to_baserow(relationships, table_name, schemas, mappings) ==
    map_from(relationships, 1, table_name, schemas, mappings, EmptyMap)

\* The source tables a call of map_relationships_to_baserow reads the
\* registry of: one per payload key that reaches the lookup loop with a
\* source id to look up.
tables_looked_up(relationships, table_name, schemas) ==
    {routing_entry(table_name, relationships[i].k).source_table :
        i \in {j \in 1..Len(relationships) :
            LET mapping == routing_entry(table_name, relationships[j].k)
            IN /\ mapping # NoRouting
               /\ Len(relationships[j].v) > 0
               /\ table_name \in DOMAIN schemas
               /\ get_field_by_name(schemas[table_name], mapping.field_name)
                     # NoField
               /\ \E e \in 1..Len(relationships[j].v) :
                     mapping.direct_id
                     \/ old_ids_of(mapping, relationships[j].v)[e] # NoId}}


registry_after_lookup_inserting(mappings, table) ==
    IF table \in DOMAIN mappings THEN mappings
    ELSE Put(mappings, table, EmptyMap)

\* self.id_mappings after self.id_mappings.get(source_table, {}): the default
\* of a missing table is returned to the caller and not stored.
registry_after_lookup(mappings, table) == mappings

\* self.id_mappings after the lookups of one call of the resolver.
RECURSIVE registry_after_lookups(_, _)
registry_after_lookups(mappings, tables) ==
    IF tables = {} THEN mappings
    ELSE LET table == CHOOSE t \in tables : TRUE
         IN registry_after_lookups(registry_after_lookup(mappings, table),
                                   tables \ {table})
\* ------------------------------------------------------------------ inputs

\* The tables of the run, in import order, and the position of one.
TableNames == {import_order[p][2] : p \in 1..Len(import_order)}

PositionOf(table_name) ==
    CHOOSE p \in 1..Len(import_order) : import_order[p][2] = table_name

\* The destination's table ids, as its table listing gives them.
TableIdOf(table_name) == 100 + PositionOf(table_name)

TableIds == {TableIdOf(t) : t \in TableNames}

\* Table listings the destination may answer discover_tables with: the exact
\* expected names; underscored names for the hyphenated tables (title-cased
\* as create_tables.py makes them, or not); and a database that lacks the
\* Memory table.
DestinationName(listing, table_name) ==
    IF listing = "created" /\ table_name = "Actions-timeline"
    THEN Chars("Actions_Timeline")
    ELSE IF listing = "created" /\ table_name = "Discursive-oil"
    THEN Chars("Discursive_Oil")
    ELSE IF listing = "created" /\ table_name = "Related-events"
    THEN Chars("Related_events")
    ELSE Chars(table_name)

TableListing(listing) ==
    {[name |-> DestinationName(listing, t), id |-> TableIdOf(t)] :
        t \in IF listing = "incomplete" THEN TableNames \ {"Memory"}
              ELSE TableNames}

Listings == {"exact", "created", "incomplete"}

\* Field listings the destination may answer initialize_schemas with. In
\* "full" every field the routing and the static mapping of the modelled
\* records name exists; in "drift" the schema has moved on: names differ in
\* case (Location has both 'name' and 'Name'), Infrastructure has lost its
\* linked_location link field and gained a number field location_id, and
\* Discursive-oil's author has become a link field.
F(id, name, type) == [id |-> id, name |-> name, type |-> type]

FullFields(table_name) ==
    CASE table_name = "Location" ->
            <<F(1, "Name", "text"), F(2, "notes", "long_text"),
              F(3, "founded", "date")>>
      [] table_name = "Role" ->
            <<F(11, "Name", "text"), F(12, "start_date", "date"),
              F(13, "linked_people", "link_row"),
              F(14, "linked_locations", "link_row")>>
      [] table_name = "People" ->
            <<F(31, "Name", "text"), F(32, "linked_roles", "link_row")>>
      [] table_name = "Infrastructure" ->
            <<F(51, "Name", "text"), F(52, "status", "text"),
              F(53, "linked_location", "link_row"),
              F(54, "legacy_code", "text")>>
      [] table_name = "Discursive-oil" ->
            <<F(101, "Name", "text"), F(102, "author", "text"),
              F(103, "linked_author", "link_row")>>
      [] OTHER ->
            <<F(10 * PositionOf(table_name) + 1, "Name", "text")>>

DriftFields(table_name) ==
    CASE table_name = "Location" ->
            <<F(1, "name", "text"), F(2, "NOTES", "long_text"),
              F(4, "Name", "text")>>
      [] table_name = "Infrastructure" ->
            <<F(51, "Name", "text"), F(52, "status", "text"),
              F(54, "legacy_code", "text"), F(55, "location_id", "number")>>
      [] table_name = "Discursive-oil" ->
            <<F(101, "Name", "text"), F(102, "author", "link_row"),
              F(103, "linked_author", "link_row")>>
      [] OTHER -> FullFields(table_name)

FieldListing(variant, table_name) ==
    IF variant = "drift" THEN DriftFields(table_name)
    ELSE FullFields(table_name)

SchemaVariants == {"full", "drift"}

\* Source records. E(k, v) is one entry of a JSON object.
E(k, v) == [k |-> k, v |-> v]

Obj(entries) == [isdict |-> TRUE, e |-> entries]

\* An item of the file that is no JSON object (a bare string, say).
NotAnObject == [isdict |-> FALSE, e |-> <<>>]

M2M(key, ids) == VList([j \in 1..Len(ids) |-> JoinRow(key, ids[j])])

LocLagos ==
    Obj(<<E("Id", VInt(1)), E("location", VStr("Lagos")),
          E("notes", VStr("port city"))>>)

LocZero == Obj(<<E("Id", VInt(0)), E("location", VStr("Abuja"))>>)

LocNoId == Obj(<<E("location", VStr("Abuja")), E("notes", VStr(""))>>)

LocUnmapped == Obj(<<E("Id", VInt(2)), E("legacy_code", VStr("bar"))>>)

RoleDirector ==
    Obj(<<E("Id", VInt(1)), E("role", VStr("Director")),
          E("start_date", VStr("1961")),
          E("_nc_m2m_people_roles", M2M("people_id", <<1>>)),
          E("_nc_m2m_role_locations", M2M("location_id", <<1>>))>>)

RoleUndated == Obj(<<E("Id", VInt(2)), E("start_date", VStr("bar"))>>)

PersonAnn ==
    Obj(<<E("Id", VInt(1)), E("first_name", VStr("Ann")),
          E("_nc_m2m_people_roles", M2M("role_id", <<1>>))>>)

InfraScenario2 ==
    Obj(<<E("Id", VInt(10)),
          E("_nc_m2m_infrastructure_locations", M2M("location_id", <<1>>))>>)

InfraPipeline ==
    Obj(<<E("Id", VInt(11)), E("infrastructure_name", VStr("Pipeline")),
          E("_nc_m2m_infrastructure_locations", M2M("location_id", <<1>>))>>)

InfraDepot ==
    Obj(<<E("Id", VInt(12)), E("CreatedAt", VStr("1961")),
          E("infrastructure_name", VStr("Depot")),
          E("linked_location", VStr("5")), E("location_id", VInt(1)),
          E("legacy_code", VStr("bar")),
          E("_nc_m2m_entity_infrastructures", M2M("entity_id", <<>>)),
          E("_nc_m2m_infrastructure_locations",
            M2M("location_id", <<3, 1, 0>>))>>)

OilLetter ==
    Obj(<<E("Id", VInt(1)), E("Title", VStr("Letter")),
          E("author", VDict(<<[k |-> "Id", n |-> 1]>>))>>)

OilMemo ==
    Obj(<<E("Id", VInt(2)), E("Title", VStr("Letter")),
          E("author", VStr("Ann"))>>)

RecordsOf(table_name) ==
    CASE table_name = "Location" ->
            {LocLagos, LocZero, LocNoId, LocUnmapped, NotAnObject}
      [] table_name = "Role" -> {RoleDirector, RoleUndated}
      [] table_name = "People" -> {PersonAnn}
      [] table_name = "Infrastructure" ->
            {InfraScenario2, InfraPipeline, InfraDepot}
      [] table_name = "Discursive-oil" -> {OilLetter, OilMemo}
      [] OTHER -> {}

\* The record lists a source file of the table may hold, of at most n records.
ItemLists(table_name, n) ==
    UNION {[1..len -> RecordsOf(table_name)] : len \in 0..n}

\* The linked scenario: a second location, and infrastructure records whose
\* payload names both locations.
LocAbuja == Obj(<<E("Id", VInt(2)), E("location", VStr("Abuja"))>>)

InfraTrunk ==
    Obj(<<E("Id", VInt(13)), E("infrastructure_name", VStr("Pipeline")),
          E("_nc_m2m_infrastructure_locations",
            M2M("location_id", <<2, 1>>))>>)

InfraBare ==
    Obj(<<E("Id", VInt(14)),
          E("_nc_m2m_infrastructure_locations",
            M2M("location_id", <<1, 2>>))>>)

InfraZero ==
    Obj(<<E("Id", VInt(0)), E("infrastructure_name", VStr("Depot")),
          E("_nc_m2m_infrastructure_locations", M2M("location_id", <<1>>))>>)

LocFounded ==
    Obj(<<E("Id", VInt(3)), E("location", VStr("Abuja")),
          E("founded", VStr("1961"))>>)

LinkedLists(table_name) ==
    CASE table_name = "Location" ->
            {<<LocLagos, LocAbuja>>, <<LocAbuja, LocLagos>>, <<LocLagos>>,
             <<LocFounded>>}
      [] table_name = "Infrastructure" ->
            {<<InfraTrunk>>, <<InfraBare>>, <<InfraPipeline>>, <<InfraZero>>}
      [] OTHER -> {<<>>}

\* What the destination may answer a create call with: the created row; an
\* HTTP error (raise_for_status raises); a 2xx answer whose JSON body is null.
CreateResults == {"ok", "raise", "null"}

PatchResults == {"ok", "raise"}

\* ------------------------------------------------------------------- state

VARIABLES
    pc,               \* where main / run_migration / import_table_data stands
    exit_code,        \* main's return value, NoId while it runs
    dry_run,          \* --dry-run
    clear_tables,     \* --clear
    target_table,     \* --table, "" when not given
    table_mappings,   \* self.table_mappings: expected table name -> table id
    table_schemas,    \* self.table_schemas: table name -> TableSchema
    id_mappings,      \* self.id_mappings: table name -> (source id -> row id)
    migration_stats,  \* self.migration_stats: table name -> counters
    order,            \* run_migration's (filtered) import_order, table names
    phase,            \* run_migration's position in order (phase_num)
    table_successes,  \* run_migration's success_count
    items,            \* import_table_data's items
    i,                \* import_table_data's position in items
    field_mapping,    \* import_table_data's field_mapping
    success_count,    \* import_table_data's success_count
    error_count,      \* import_table_data's error_count
    deleted_count,    \* clear_table's deleted_count
    reported,         \* table name -> the "Found N records to import" printed
    dest_rows,        \* the destination: table id -> ids of the rows it holds
    dest_next,        \* the destination: table id -> id its next row gets
    calls,            \* the calls made on the destination, in order
    lookups,          \* the registry reads of the relationship resolver
    records_read,     \* records loaded from the source files so far
    files_opened,     \* source files found so far
    fn_args,          \* the arguments of a function called on its own
    fn_results,       \* the results of its calls, in order
    frame             \* getData.py: the local variables of fetch_all_data

vars ==
    <<pc, exit_code, dry_run, clear_tables, target_table, table_mappings,
      table_schemas, id_mappings, migration_stats, order, phase,
      table_successes, items, i, field_mapping, success_count, error_count,
      deleted_count, reported, dest_rows, dest_next, calls, lookups,
      records_read, files_opened, fn_args, fn_results, frame>>

\* One call on the destination: the operation, the table id, the row id it
\* names or returns (NoId when none), whether it returned (FALSE: it raised,
\* or delete_row returned False), the payload sent (fields of a create, links
\* of a patch), and for a create the 'Id' of the source record it is made
\* for (NoId when the record has none).
Call(op, table, row, ok, fields, links, record_id) ==
    [op |-> op, table |-> table, row |-> row, ok |-> ok,
     fields |-> fields, links |-> links, record_id |-> record_id]

\* The migration is specified for a destination that starts empty or is
\* cleared first: rows exist before the run, in these tables, when it is run
\* with --clear.
PreFilledTables == {TableIdOf("Location"), TableIdOf("Infrastructure")}

TargetTables == {"", "Infrastructure", "Nowhere"}

Init ==
    /\ pc = "main"
    /\ exit_code = NoId
    /\ dry_run \in BOOLEAN
    /\ clear_tables \in BOOLEAN
    /\ target_table \in TargetTables
    /\ table_mappings = EmptyMap
    /\ table_schemas = EmptyMap
    /\ id_mappings = EmptyMap
    /\ migration_stats = EmptyMap
    /\ order = <<>>
    /\ phase = 0
    /\ table_successes = 0
    /\ items = <<>>
    /\ i = 0
    /\ field_mapping = EmptyMap
    /\ success_count = 0
    /\ error_count = 0
    /\ deleted_count = 0
    /\ reported = EmptyMap
    /\ dest_rows = [t \in TableIds |->
            IF clear_tables /\ t \in PreFilledTables THEN 1..MaxPreRows
            ELSE {}]
    /\ dest_next = [t \in TableIds |-> Cardinality(dest_rows[t]) + 1]
    /\ calls = <<>>
    /\ lookups = {}
    /\ records_read = 0
    /\ files_opened = 0
    /\ fn_args = <<>>
    /\ fn_results = <<>>
    /\ frame = <<>>

Return_failure(code) ==
    /\ pc' = "done"
    /\ exit_code' = 1
    /\ items' = <<>>
    /\ i' = 0
    /\ field_mapping' = EmptyMap
    /\ success_count' = 0
    /\ error_count' = 0
    /\ deleted_count' = 0

\* main returns code; nothing of the run is left on the stack.
Return(code) ==
    /\ pc' = "done"
    /\ exit_code' = code
    /\ items' = <<>>
    /\ i' = 0
    /\ field_mapping' = EmptyMap
    /\ success_count' = 0
    /\ error_count' = 0
    /\ deleted_count' = 0

\* ----------------------------------------------------------------- actions

\* CamillaMigrationManager.__init__ under main's try: without API_TOKEN it
\* raises and main returns 1.
Construct ==
    /\ pc = "main"
    /\ \E api_token \in BOOLEAN :
          IF api_token
          THEN /\ pc' = "discover"
               /\ UNCHANGED <<exit_code, items, i, field_mapping,
                              success_count, error_count, deleted_count>>
          ELSE Return(1)
    /\ UNCHANGED <<dry_run, clear_tables, target_table, table_mappings,
                   table_schemas, id_mappings, migration_stats, order, phase,
                   table_successes, reported, dest_rows, dest_next, calls,
                   lookups, records_read,
                   files_opened>>
    /\ UNCHANGED <<fn_args, fn_results, frame>>

\* The naming variations discover_tables tries after the exact name.
variations(expected_table) ==
    <<ReplaceChar(Chars(expected_table), "-", "_"),
      ReplaceChar(Title(ReplaceChar(Chars(expected_table), "-", "_")), "_", "_"),
      ReplaceChar(Title(Chars(expected_table)), "-", "_")>>

\* found_tables: name -> id of the listing (a later table of the same name
\* would overwrite; the listings modelled have distinct names).
found_tables(listing) ==
    [name \in {t.name : t \in listing} |->
        (CHOOSE t \in listing : t.name = name).id]

\* The id discover_tables maps an expected table to, NoId when it is missing.
discovered_id(found, expected_table) ==
    IF Chars(expected_table) \in DOMAIN found
    THEN found[Chars(expected_table)]
    ELSE LET v == variations(expected_table)
             hits == {j \in 1..Len(v) : v[j] \in DOMAIN found}
         IN IF hits = {} THEN NoId
            ELSE found[v[CHOOSE j \in hits : \A h \in hits : j <= h]]

discovery_fails_on_error(raised, missing_tables) == raised

\* discover_tables returns False: the listing raised (the except clause) or
\* an expected table has no match.
discovery_fails(raised, missing_tables) == raised \/ missing_tables # {}

\* discover_tables, and run_migration's return when it fails.
DiscoverTables ==
    /\ pc = "discover"
    /\ \E answer \in Listings \cup {"raise"} :
          LET found == IF answer = "raise" THEN EmptyMap
                       ELSE found_tables(TableListing(answer))
              present == {p \in 1..Len(expected_tables) :
                            discovered_id(found, expected_tables[p]) # NoId}
              missing_tables == (1..Len(expected_tables)) \ present
          IN /\ calls' = Append(calls,
                    Call("list_tables", NoId, NoId, answer # "raise",
                         EmptyMap, EmptyMap, NoId))
             /\ table_mappings' =
                    [t \in {expected_tables[p] : p \in present} |->
                        discovered_id(found, t)]
             /\ IF discovery_fails(answer = "raise", missing_tables)
                THEN Return(0)
                ELSE /\ pc' = "schemas"
                     /\ UNCHANGED <<exit_code, items, i, field_mapping,
                                    success_count, error_count, deleted_count>>
    /\ UNCHANGED <<dry_run, clear_tables, target_table, table_schemas,
                   id_mappings, migration_stats, order, phase,
                   table_successes, reported, dest_rows, dest_next, lookups, records_read,
                   files_opened>>
    /\ UNCHANGED <<fn_args, fn_results, frame>>

\* The tables initialize_schemas reaches when the field listing of the
\* fail_at-th table raises (0: none raises), in table_mappings order.
schema_tables(fail_at) ==
    {expected_tables[p] :
        p \in {q \in 1..Len(expected_tables) : fail_at = 0 \/ q < fail_at}}

\* SchemaAnalyzer.get_table_schema for a fresh cache.
get_table_schema(variant, table_id, table_name) ==
    [table_id |-> table_id, table_name |-> table_name,
     fields |-> FieldListing(variant, table_name)]

filtered_order_reversed(target) ==
    LET names == [p \in 1..Len(import_order) |->
                    import_order[Len(import_order) + 1 - p][2]]
    IN IF target = "" THEN names
       ELSE SelectSeq(names, LAMBDA t : t = target)

filtered_order_all(target) ==
    [p \in 1..Len(import_order) |-> import_order[p][2]]

\* run_migration's filter of the import order by --table.
filtered_order(target) ==
    LET names == [p \in 1..Len(import_order) |-> import_order[p][2]]
    IN IF target = "" THEN names
       ELSE SelectSeq(names, LAMBDA t : t = target)

FailPoints == {0, 1, Len(expected_tables)}

\* initialize_schemas (any listing failure propagates to main, which returns
\* 1), then run_migration's filtering of the import order.
InitializeSchemas ==
    /\ pc = "schemas"
    /\ \E variant \in SchemaVariants, fail_at \in FailPoints :
          LET loaded == schema_tables(fail_at)
              asked == {expected_tables[p] :
                          p \in {q \in 1..Len(expected_tables) :
                                    fail_at = 0 \/ q <= fail_at}}
              asked_seq == SelectSeq(expected_tables, LAMBDA t : t \in asked)
          IN /\ table_schemas' =
                    [t \in loaded |->
                        get_table_schema(variant, table_mappings[t], t)]
             /\ calls' = calls \o
                    [p \in 1..Len(asked_seq) |->
                        Call("list_fields", table_mappings[asked_seq[p]], NoId,
                             asked_seq[p] \in loaded, EmptyMap, EmptyMap, NoId)]
             /\ IF fail_at # 0
                THEN /\ Return(1)
                     /\ UNCHANGED <<order, phase>>
                ELSE IF filtered_order(target_table) = <<>>
                THEN /\ Return(0)
                     /\ UNCHANGED <<order, phase>>
                ELSE /\ pc' = "tables"
                     /\ order' = filtered_order(target_table)
                     /\ phase' = 1
                     /\ UNCHANGED <<exit_code, items, i, field_mapping,
                                    success_count, error_count, deleted_count>>
    /\ UNCHANGED <<dry_run, clear_tables, target_table, table_mappings,
                   id_mappings, migration_stats, table_successes, reported,
                   dest_rows, dest_next, lookups, records_read,
                   files_opened>>
    /\ UNCHANGED <<fn_args, fn_results, frame>>

\* The table run_migration is at.
CurrentTable == order[phase]

CurrentTableId == table_mappings[CurrentTable]

NextTable_ending ==
    /\ pc' = "tables"
    /\ phase' = Len(order) + 1
    /\ items' = <<>>
    /\ i' = 0
    /\ field_mapping' = EmptyMap
    /\ success_count' = 0
    /\ error_count' = 0
    /\ deleted_count' = 0

\* run_migration moves to the next table of the order; import_table_data's
\* locals are gone.
NextTable ==
    /\ pc' = "tables"
    /\ phase' = phase + 1
    /\ items' = <<>>
    /\ i' = 0
    /\ field_mapping' = EmptyMap
    /\ success_count' = 0
    /\ error_count' = 0
    /\ deleted_count' = 0

should_clear_asked(clear, dry) == clear

\* if clear_table and not dry_run
should_clear(clear, dry) == clear /\ ~dry

\* The source files a run may find: only these tables have one.
DataTables == {"Location", "Role", "People", "Infrastructure", "Discursive-oil"}

\* run_migration's loop head for one table: a missing source file skips the
\* table; otherwise import_table_data starts, with the pre-clear when asked.
BeginTable ==
    /\ pc = "tables"
    /\ phase <= Len(order)
    /\ \E file_exists \in
            {(CurrentTable \in DataTables) /\ files_opened < MaxFiles, FALSE} :
          IF ~file_exists
          THEN /\ NextTable
               /\ UNCHANGED files_opened
          ELSE /\ files_opened' = files_opened + 1
               /\ pc' = IF should_clear(clear_tables, dry_run) THEN "clear"
                        ELSE "load"
               /\ UNCHANGED <<phase, items, i, field_mapping, success_count,
                              error_count, deleted_count>>
    /\ UNCHANGED <<exit_code, dry_run, clear_tables, target_table,
                   table_mappings, table_schemas, id_mappings, migration_stats,
                   order, table_successes, reported, dest_rows, dest_next,
                   calls, lookups, records_read>>
    /\ UNCHANGED <<fn_args, fn_results, frame>>

\* get_table_rows(table_id, page=1) pages by 200 rows.
PageSize == 200

\* The first page of a table: its PageSize rows of lowest id.
first_page(rows) ==
    {r \in rows : Cardinality({q \in rows : q < r}) < PageSize}

\* The delete_row calls of one page, in row order.
delete_calls(table_id, rows, failed) ==
    LET sorted == SelectSeq([r \in 1..dest_next[table_id] |-> r],
                            LAMBDA r : r \in rows)
    IN [p \in 1..Len(sorted) |->
            Call("delete_row", table_id, sorted[p], sorted[p] \notin failed,
                 EmptyMap, EmptyMap, NoId)]

\* The log after one round of clear_table's loop. A round that repeats the
\* round before it call for call (every delete_row failed again, nothing has
\* changed) is recorded once.
log_round(log, round) ==
    IF Len(log) >= Len(round)
       /\ SubSeq(log, Len(log) - Len(round) + 1, Len(log)) = round
    THEN log
    ELSE log \o round

\* One round of clear_table's loop: list page 1 (an error propagates to main,
\* which returns 1); no rows ends the loop; otherwise delete_row on every row
\* of the page, counting the deletions that succeeded.
ClearPage ==
    /\ pc = "clear"
    /\ \E listed \in BOOLEAN :
          LET rows == first_page(dest_rows[CurrentTableId])
          IN IF ~listed
             THEN /\ calls' = Append(calls,
                        Call("list_rows", CurrentTableId, NoId, FALSE,
                             EmptyMap, EmptyMap, NoId))
                  /\ Return(1)
                  /\ UNCHANGED dest_rows
             ELSE IF rows = {}
             THEN /\ calls' = Append(calls,
                        Call("list_rows", CurrentTableId, NoId, TRUE,
                             EmptyMap, EmptyMap, NoId))
                  /\ pc' = "load"
                  /\ UNCHANGED <<exit_code, items, i, field_mapping,
                                 success_count, error_count, deleted_count,
                                 dest_rows>>
             ELSE \E failed \in SUBSET rows :
                  /\ calls' = log_round(calls,
                        <<Call("list_rows", CurrentTableId, NoId, TRUE,
                               EmptyMap, EmptyMap, NoId)>>
                        \o delete_calls(CurrentTableId, rows, failed))
                  /\ dest_rows' = [dest_rows EXCEPT
                        ![CurrentTableId] = @ \ (rows \ failed)]
                  /\ deleted_count' =
                        deleted_count + Cardinality(rows \ failed)
                  /\ UNCHANGED <<pc, exit_code, items, i, field_mapping,
                                 success_count, error_count>>
    /\ UNCHANGED <<dry_run, clear_tables, target_table, table_mappings,
                   table_schemas, id_mappings, migration_stats, order, phase,
                   table_successes, reported, dest_next, lookups, records_read,
                   files_opened>>
    /\ UNCHANGED <<fn_args, fn_results, frame>>

\* What json.load gives for a source file: it raises ("malformed"), or the
\* document is neither a list nor an object with a 'list' key ("other"), or
\* it is a list or an object holding the list under 'list'.
FileKinds == {"malformed", "other", "list", "wrapped"}

\* import_table_data from "Load JSON data" to the head of the record loop,
\* for a file of one of the kinds whose record list is one of the candidates,
\* within the budget of records read in the run.
Load(kinds, candidates, budget) ==
    /\ pc = "load"
    /\ \E kind \in kinds :
          IF kind \in {"malformed", "other"}
          THEN /\ NextTable
               /\ UNCHANGED <<reported, table_successes, records_read>>
          ELSE \E json_data \in candidates :
               /\ records_read + Len(json_data) <= budget
               /\ records_read' = records_read + Len(json_data)
               /\ reported' = Put(reported, CurrentTable, Len(json_data))
               /\ IF dry_run
                  THEN /\ NextTable
                       /\ table_successes' = table_successes + 1
                  ELSE /\ pc' = "records"
                       /\ items' = json_data
                       /\ i' = 1
                       /\ field_mapping' =
                              create_field_mapping(table_schemas, CurrentTable)
                       /\ success_count' = 0
                       /\ error_count' = 0
                       /\ UNCHANGED <<phase, deleted_count, table_successes>>
    /\ UNCHANGED <<exit_code, dry_run, clear_tables, target_table,
                   table_mappings, table_schemas, id_mappings, migration_stats,
                   order, dest_rows, dest_next, calls, lookups, files_opened>>
    /\ UNCHANGED <<fn_args, fn_results, frame>>

LoadTable == Load(FileKinds, ItemLists(CurrentTable, MaxRecords), MaxTotalRecords)

\* The same step for the linked scenario: two locations, then infrastructure
\* records that reference both.
LoadLinked == Load({"list"}, LinkedLists(CurrentTable), MaxLinkedRecords)

\* item.get('Id') as a registry key: NoId when the key is absent or null.
old_id_of(item) ==
    LET v == RecordGet(item, "Id")
    IN IF v.t = "int" THEN v.n ELSE NoId

should_create_always(cleaned_data) == TRUE

\* if cleaned_data:
should_create(cleaned_data) == cleaned_data # EmptyMap

\* if old_id and result:
should_register(old_id, result_truthy) ==
    old_id # NoId /\ old_id # 0 /\ result_truthy

register_next(mappings, table_name, old_id, new_id) ==
    Put(mappings, table_name,
        Put(IF table_name \in DOMAIN mappings THEN mappings[table_name]
            ELSE EmptyMap,
            old_id, new_id + 1))

\* self.id_mappings[table_name][old_id] = new_id
register(mappings, table_name, old_id, new_id) ==
    Put(mappings, table_name,
        Put(IF table_name \in DOMAIN mappings THEN mappings[table_name]
            ELSE EmptyMap,
            old_id, new_id))

next_record_leaving(at, n, failed) == IF failed THEN n + 1 ELSE at + 1

\* The position the loop of n records takes after the one at position at,
\* whether or not its body raised: the except clause ends the iteration, not
\* the loop.
next_record(at, n, failed) == at + 1

should_patch_always(relationship_updates) == TRUE

\* if relationship_updates:
should_patch(relationship_updates) == relationship_updates # EmptyMap

\* The outcome of the loop body for a record whose create call is made:
\* what is sent, what the registry becomes and how the record is counted.
\*   created      the destination made the row (the call did not raise)
\*   mappings     the registry after "Store ID mapping"
\*   links        the link-field update of the patch call, if one is made
\*   patches      whether update_row is called
\*   failed       whether the except clause runs (a raising create, a raising
\*                patch, or the success message's result.get('id') on None)
record_outcome(item, rels, table_name, schemas, registry, row, created_as, patched_as) ==
    LET created == created_as # "raise"
        result_truthy == created_as = "ok"
        old_id == old_id_of(item)
        mappings == IF should_register(old_id, result_truthy)
                    THEN register(registry, table_name, old_id, row)
                    ELSE registry
        resolves == Len(rels) > 0 /\ result_truthy
        links == IF resolves
                 THEN map_relationships_to_baserow(rels,
                          table_name, schemas, mappings)
                 ELSE EmptyMap
        patches == resolves /\ should_patch(links)
        patch_raises == patches /\ patched_as = "raise"
        print_raises == ~patch_raises /\ created_as = "null"
    IN [created |-> created, mappings |-> mappings, resolves |-> resolves,
        links |-> links, patches |-> patches, patch_raises |-> patch_raises,
        counted |-> created /\ ~patch_raises,
        failed |-> ~created \/ patch_raises \/ print_raises]

\* One iteration of import_table_data's record loop: extract, transform,
\* create, register, resolve, patch, count.
ProcessRecord ==
    /\ pc = "records"
    /\ i <= Len(items)
    /\ IF ~items[i].isdict
       THEN \* record.items() raises: the except clause counts the error
            /\ error_count' = error_count + 1
            /\ i' = next_record(i, Len(items), TRUE)
            /\ UNCHANGED <<success_count, id_mappings, dest_rows,
                           dest_next, calls, lookups>>
       ELSE \E relationships_data \in {extract_relationships(items[i].e)},
               cleaned_data \in {transform_record_data(items[i].e,
                                    field_mapping, CurrentTable, table_schemas)} :
            IF ~should_create(cleaned_data)
            THEN /\ error_count' = error_count + 1
                 /\ i' = next_record(i, Len(items), FALSE)
                 /\ UNCHANGED <<success_count, id_mappings, dest_rows,
                                dest_next, calls, lookups>>
            ELSE \E create_result \in CreateResults,
                    patch_result \in PatchResults :
                 \E out \in {record_outcome(items[i].e, relationships_data,
                                CurrentTable, table_schemas, id_mappings,
                                dest_next[CurrentTableId], create_result,
                                patch_result)} :
                 /\ out.patches \/ patch_result = "ok"
                 /\ calls' = calls
                       \o <<Call("create_row", CurrentTableId,
                                 IF create_result = "ok"
                                 THEN dest_next[CurrentTableId] ELSE NoId,
                                 out.created, cleaned_data, EmptyMap,
                                 old_id_of(items[i].e))>>
                       \o (IF out.patches
                           THEN <<Call("update_row", CurrentTableId,
                                       dest_next[CurrentTableId],
                                       ~out.patch_raises, EmptyMap, out.links,
                                       NoId)>>
                           ELSE <<>>)
                 /\ dest_rows' =
                       IF out.created
                       THEN [dest_rows EXCEPT ![CurrentTableId] =
                                @ \cup {dest_next[CurrentTableId]}]
                       ELSE dest_rows
                 /\ dest_next' =
                       IF out.created
                       THEN [dest_next EXCEPT ![CurrentTableId] = @ + 1]
                       ELSE dest_next
                 /\ id_mappings' = out.mappings
                 /\ lookups' = lookups \cup
                       (IF out.resolves
                        THEN {[table |-> CurrentTable, source_table |-> s] :
                                s \in tables_looked_up(relationships_data,
                                           CurrentTable, table_schemas)}
                        ELSE {})
                 /\ success_count' = IF out.counted THEN success_count + 1
                                     ELSE success_count
                 /\ error_count' = IF out.failed THEN error_count + 1
                                   ELSE error_count
                 /\ i' = next_record(i, Len(items), out.failed)
    /\ UNCHANGED <<pc, exit_code, dry_run, clear_tables, target_table,
                   table_mappings, table_schemas, migration_stats, order,
                   phase, table_successes, items, field_mapping,
                   deleted_count, reported, records_read, files_opened>>
    /\ UNCHANGED <<fn_args, fn_results, frame>>

\* The end of import_table_data: the statistics are stored, the table counts
\* as a success of the run when a record succeeded, and run_migration goes on.
FinishTable ==
    /\ pc = "records"
    /\ i > Len(items)
    /\ migration_stats' = Put(migration_stats, CurrentTable,
            [success |-> success_count, errors |-> error_count,
             total |-> Len(items)])
    /\ table_successes' = IF success_count > 0 THEN table_successes + 1
                          ELSE table_successes
    /\ NextTable
    /\ UNCHANGED <<exit_code, dry_run, clear_tables, target_table,
                   table_mappings, table_schemas, id_mappings, order,
                   reported, dest_rows, dest_next, calls, lookups, records_read,
                   files_opened>>
    /\ UNCHANGED <<fn_args, fn_results, frame>>

\* print_final_summary after the last table; run_migration returns and main
\* returns 0.
Summary ==
    /\ pc = "tables"
    /\ phase > Len(order)
    /\ Return(0)
    /\ UNCHANGED <<dry_run, clear_tables, target_table, table_mappings,
                   table_schemas, id_mappings, migration_stats, order, phase,
                   table_successes, reported, dest_rows, dest_next, calls,
                   lookups, records_read,
                   files_opened>>
    /\ UNCHANGED <<fn_args, fn_results, frame>>

Next ==
    \/ Construct
    \/ DiscoverTables
    \/ InitializeSchemas
    \/ BeginTable
    \/ ClearPage
    \/ LoadTable
    \/ ProcessRecord
    \/ FinishTable
    \/ Summary

Spec == Init /\ [][Next]_vars

\* A plain run (no --dry-run, no --clear, no --table) over the linked scenario.
InitLinked == Init /\ ~dry_run /\ ~clear_tables /\ target_table = ""

NextLinked ==
    \/ Construct
    \/ DiscoverTables
    \/ InitializeSchemas
    \/ BeginTable
    \/ LoadLinked
    \/ ProcessRecord
    \/ FinishTable
    \/ Summary

SpecLinked == InitLinked /\ [][NextLinked]_vars


\* ------------------------------------------- the resolver called on its own

\* The manager once discovery and initialize_schemas have succeeded and some
\* tables were imported: nothing of a table's import is on the stack.
Constructed ==
    /\ exit_code = NoId
    /\ dry_run = FALSE
    /\ clear_tables = FALSE
    /\ target_table = ""
    /\ table_mappings =
          [t \in {expected_tables[p] : p \in 1..Len(expected_tables)} |->
              discovered_id(found_tables(TableListing("exact")), t)]
    /\ order = filtered_order("")
    /\ phase = 0
    /\ table_successes = 0
    /\ items = <<>>
    /\ i = 0
    /\ field_mapping = EmptyMap
    /\ success_count = 0
    /\ error_count = 0
    /\ deleted_count = 0
    /\ reported = EmptyMap
    /\ dest_rows = [t \in TableIds |-> {}]
    /\ dest_next = [t \in TableIds |-> 1]
    /\ calls = <<>>
    /\ lookups = {}
    /\ records_read = 0
    /\ files_opened = 0

MaxRowId == 2

\* Registries the record loop can have built: a table is present once a row
\* of it was registered, under a truthy source id.
LocationEntries ==
    UNION {[S -> 1..MaxRowId] : S \in (SUBSET {1, 2, 3}) \ {{}}}

Registries ==
    {EmptyMap}
    \cup {register(EmptyMap, "People", 1, 1)}
    \cup {Put(EmptyMap, "Location", f) : f \in LocationEntries}
    \cup {register(Put(EmptyMap, "Location", f), "People", 1, 1) :
            f \in LocationEntries}

\* Statistics import_table_data can have stored.
StatsSamples ==
    {EmptyMap,
     Put(EmptyMap, "Location", [success |-> 2, errors |-> 0, total |-> 2])}

\* Payloads extract_relationships gives for the modelled records, each with
\* the table it is resolved for.
ResolveArgs ==
    {<<extract_relationships(r.e), t>> :
        r \in {InfraTrunk, InfraBare, InfraDepot, RoleDirector, PersonAnn,
               OilLetter, LocLagos},
        t \in {"Infrastructure", "Role", "Discursive-oil"}}

MaxResolveCalls == 2

InitResolve ==
    /\ pc = "resolve"
    /\ Constructed
    /\ \E variant \in SchemaVariants :
          table_schemas =
             [t \in DOMAIN table_mappings |->
                 get_table_schema(variant, table_mappings[t], t)]
    /\ id_mappings \in Registries
    /\ migration_stats \in StatsSamples
    /\ fn_args \in ResolveArgs
    /\ fn_results = <<>>
    /\ frame = <<>>

\* One call of map_relationships_to_baserow(relationships, table_name): its
\* return value, and the manager as the call leaves it.
Resolve ==
    /\ pc = "resolve"
    /\ Len(fn_results) < MaxResolveCalls
    /\ fn_results' = Append(fn_results,
          map_relationships_to_baserow(fn_args[1], fn_args[2],
                                       table_schemas, id_mappings))
    /\ id_mappings' = registry_after_lookups(id_mappings,
          tables_looked_up(fn_args[1], fn_args[2], table_schemas))
    /\ lookups' = lookups \cup
          {[table |-> fn_args[2], source_table |-> s] :
              s \in tables_looked_up(fn_args[1], fn_args[2], table_schemas)}
    /\ UNCHANGED <<pc, exit_code, dry_run, clear_tables, target_table,
                   table_mappings, table_schemas, migration_stats, order,
                   phase, table_successes, items, i, field_mapping,
                   success_count, error_count, deleted_count, reported,
                   dest_rows, dest_next, calls, records_read, files_opened,
                   fn_args, frame>>

NextResolve == Resolve

SpecResolve == InitResolve /\ [][NextResolve]_vars

\* ------------------------------------ the date normalizers called on their own

\* Date strings a source record may hold: years, dates and datetimes, well
\* formed or not, padded or not.
DateInputs ==
    {<<a, b, c, d>> : a \in {"1", "2"}, b \in {"9", "0"}, c \in {"6", "x"},
                      d \in {"1", " "}}
    \cup {y \o <<sep>> \o m \o <<sep>> \o d \o rest :
            y \in {<<"1", "9", "6", "1">>, <<"1", "9", "x", "1">>},
            sep \in {"-", "/"},
            m \in {<<"0", "4">>, <<"4">>},
            d \in {<<"1", "8">>, <<"1", "T">>},
            rest \in {<<>>, <<"T">>, <<"T", "1", "0", ":", "3", "0", "Z">>,
                      <<" ", "1", "0", ":", "3", "0">>, <<"T", " ">>,
                      <<"\n">>}}
    \cup {<<>>, <<"1", "9", "6", "1", "1">>, <<" ", "1", "9", "6", "1">>,
          <<"T">>}

InitDates ==
    /\ pc = "call"
    /\ Constructed
    /\ table_schemas = EmptyMap
    /\ id_mappings = EmptyMap
    /\ migration_stats = EmptyMap
    /\ fn_args \in {VChars(s) : s \in DateInputs}
    /\ fn_results = <<>>
    /\ frame = <<>>

\* The result of one normalizer is added to the results.
Returned(by, value) ==
    /\ pc = "call"
    /\ \A k \in 1..Len(fn_results) : fn_results[k].by # by
    /\ fn_results' = Append(fn_results, [by |-> by, value |-> value])
    /\ UNCHANGED <<pc, exit_code, dry_run, clear_tables, target_table,
                   table_mappings, table_schemas, id_mappings,
                   migration_stats, order, phase, table_successes, items, i,
                   field_mapping, success_count, error_count, deleted_count,
                   reported, dest_rows, dest_next, calls, lookups,
                   records_read, files_opened, fn_args, frame>>

\* CamillaMigrationManager._normalize_date(value)
NormalizeDate == Returned("manager", normalize_date(fn_args))

\* DataTransformer._normalize_date(value)
TransformerNormalizeDate ==
    Returned("transformer", transformer_normalize_date(fn_args))

NextDates ==
    \/ NormalizeDate
    \/ TransformerNormalizeDate

SpecDates == InitDates /\ [][NextDates]_vars

\* ---------------------------------------- _normalize_boolean called on its own

\* Values a source record may hold under a boolean field: booleans, null,
\* integers, and the words for true and false in every mix of case, padded,
\* cut short or not.
InitBooleans ==
    /\ pc = "call"
    /\ Constructed
    /\ table_schemas = EmptyMap
    /\ id_mappings = EmptyMap
    /\ migration_stats = EmptyMap
    /\ fn_args \in
          {VBool(TRUE), VBool(FALSE), VNone, VInt(0), VInt(1), VInt(2)}
          \cup {VChars(s \o rest) :
                  s \in {<<a, b, c, d>> : a \in {"t", "T"}, b \in {"r", "R"},
                                          c \in {"u", "U"}, d \in {"e", "E"}}
                        \cup {<<a, b, c>> : a \in {"y", "Y", "n"},
                                            b \in {"e", "E", "o"},
                                            c \in {"s", "S"}}
                        \cup {<<a, b>> : a \in {"o", "O", "n"},
                                         b \in {"n", "N", "f"}}
                        \cup {<<>>, <<"1">>, <<"0">>,
                              <<"f", "a", "l", "s", "e">>, <<"1", "1">>},
                  rest \in {<<>>, <<" ">>}}
    /\ fn_results = <<>>
    /\ frame = <<>>

\* DataTransformer._normalize_boolean(value)
NormalizeBoolean == Returned("boolean", VBool(normalize_boolean(fn_args)))

SpecBooleans == InitBooleans /\ [][NormalizeBoolean]_vars

\* ------------------------------- the functions of a record called on their own

\* A record of a table, as import_table_data hands it to the functions, the
\* schemas loaded wholly or (initialize_schemas having raised) in part: the
\* modelled records, and records holding an object or null under a
\* relationship key, an object without 'Id', and an object under a plain key.
InitExtract ==
    /\ pc = "call"
    /\ Constructed
    /\ \E variant \in SchemaVariants, fail_at \in FailPoints :
          table_schemas =
             [t \in schema_tables(fail_at) |->
                 get_table_schema(variant, table_mappings[t], t)]
    /\ id_mappings = EmptyMap
    /\ migration_stats = EmptyMap
    /\ fn_args \in
          UNION {{<<r.e, t>> : r \in RecordsOf(t) \ {NotAnObject}} :
                    t \in DataTables}
          \cup {<<r.e, "Infrastructure">> :
                  r \in {InfraTrunk, InfraBare, InfraZero}}
          \cup {<<<<E("Id", VInt(5)), E("role", VStr("Director")),
                    E("_nc_m2m_people_roles", odd)>>, "Role">> :
                  odd \in {VNone, VStr("Ann"), VInt(1),
                           VDict(<<[k |-> "Id", n |-> 7]>>),
                           VDict(<<[k |-> "people_id", n |-> 7]>>)}}
          \cup {<<<<E("Id", VInt(5)), E("Title", VStr("Letter")),
                    E("author", odd)>>, "Discursive-oil">> :
                  odd \in {VDict(<<[k |-> "Id", n |-> 0]>>),
                           VDict(<<[k |-> "people_id", n |-> 7]>>),
                           VDict(<<>>), VList(<<>>), VNone}}
    /\ fn_results = <<>>
    /\ frame = <<>>

\* CamillaMigrationManager.extract_relationships(record)
ExtractRelationships ==
    Returned("extract_relationships", extract_relationships(fn_args[1]))

\* CamillaMigrationManager.transform_record_data(record, field_mapping,
\* table_name), the field mapping being the table's.
TransformRecordData ==
    Returned("transform_record_data",
             transform_record_data(fn_args[1],
                 create_field_mapping(table_schemas, fn_args[2]),
                 fn_args[2], table_schemas))

\* CamillaMigrationManager.create_field_mapping(table_name)
CreateFieldMapping ==
    Returned("create_field_mapping",
             create_field_mapping(table_schemas, fn_args[2]))

NextExtract ==
    \/ ExtractRelationships
    \/ TransformRecordData
    \/ CreateFieldMapping

SpecExtract == InitExtract /\ [][NextExtract]_vars

\* -------------------------------------------------- getData.py: fetch_all_data

MaxPages == 4

MaxFailures == 4

\* min(delay_between_requests * (2 ** (page % 3)), 10)
retry_delay(delay_between_requests, page) ==
    LET grown == delay_between_requests * (2 ^ (page % 3))
    IN IF grown < 10 THEN grown ELSE 10

\* fetch_all_data(tableID, delay_between_requests) is entered, for a table
\* the source serves in fn_args.pages pages: page 1, no request made yet.
\* failures counts the failed requests since the last answered one.
InitFetch ==
    /\ pc = "fetch"
    /\ exit_code = NoId
    /\ dry_run = FALSE
    /\ clear_tables = FALSE
    /\ target_table = ""
    /\ table_mappings = EmptyMap
    /\ table_schemas = EmptyMap
    /\ id_mappings = EmptyMap
    /\ migration_stats = EmptyMap
    /\ order = <<>>
    /\ phase = 0
    /\ table_successes = 0
    /\ items = <<>>
    /\ i = 0
    /\ field_mapping = EmptyMap
    /\ success_count = 0
    /\ error_count = 0
    /\ deleted_count = 0
    /\ reported = EmptyMap
    /\ dest_rows = [t \in TableIds |-> {}]
    /\ dest_next = [t \in TableIds |-> 1]
    /\ calls = <<>>
    /\ lookups = {}
    /\ records_read = 0
    /\ files_opened = 0
    /\ fn_args \in [delay_between_requests : {1, 2, 3, 6},
                    pages : 1..MaxPages]
    /\ fn_results = <<>>
    /\ frame = [page |-> 1, request_count |-> 0, all_records |-> 0,
                failures |-> 0, retry_delay |-> 0]

\* One iteration of fetch_all_data's loop: the request is answered (the
\* records are added; the last page ends the loop and the function returns,
\* any other page is followed by the next), or it raises a RequestException
\* (the function sleeps retry_delay and asks for the same page again).
FetchPage ==
    /\ pc = "fetch"
    /\ \E answered \in BOOLEAN :
          IF answered
          THEN /\ frame' = [frame EXCEPT
                      !.request_count = @ + 1,
                      !.all_records = @ + 1,
                      !.failures = 0,
                      !.page = IF frame.page >= fn_args.pages THEN @
                               ELSE @ + 1]
               /\ IF frame.page >= fn_args.pages
                  THEN /\ pc' = "fetched"
                       /\ fn_results' = <<frame.all_records + 1>>
                  ELSE UNCHANGED <<pc, fn_results>>
          ELSE /\ frame.failures < MaxFailures
               /\ frame' = [frame EXCEPT
                      !.failures = @ + 1,
                      !.retry_delay = retry_delay(
                          fn_args.delay_between_requests, frame.page)]
               /\ UNCHANGED <<pc, fn_results>>
    /\ UNCHANGED <<exit_code, dry_run, clear_tables, target_table,
                   table_mappings, table_schemas, id_mappings,
                   migration_stats, order, phase, table_successes, items, i,
                   field_mapping, success_count, error_count, deleted_count,
                   reported, dest_rows, dest_next, calls, lookups,
                   records_read, files_opened, fn_args>>

SpecFetch == InitFetch /\ [][FetchPage]_vars

\* -------------------------------------------------------------- properties

\* The expected table a destination table id was discovered for.
TableOfId(table_id) ==
    CHOOSE t \in DOMAIN table_mappings : table_mappings[t] = table_id

\* A create call that returned the created row.
ReturnedRow(c) == c.op = "create_row" /\ c.ok /\ c.row # NoId

\* The registry holds an entry for source id s of table t.
Registered(t, s) == t \in DOMAIN id_mappings /\ s \in DOMAIN id_mappings[t]

\* The calls the step under way adds to the log.
NewCalls == SubSeq(calls', Len(calls) + 1, Len(calls'))

\* The record loop is about to process items[i].
AtRecord == pc = "records" /\ i <= Len(items)

\* The record loop has just processed item as the record at position p.
Processed(item, p) == pc = "records" /\ i = p + 1 /\ items[p] = item

\* The create payload of the record under way is not empty.
HasPlainField ==
    items[i].isdict
    /\ transform_record_data(items[i].e, field_mapping, CurrentTable,
                             table_schemas) # EmptyMap

\* C1: the registry holds an entry for (T, S) exactly when a destination row
\* was created for the record of table T with source id S: every create that
\* returned a row for a record carrying an 'Id' has its entry, and every entry
\* has such a create.
C1_EntryIffCreated ==
    /\ \A k \in 1..Len(calls) :
          (ReturnedRow(calls[k]) /\ calls[k].record_id # NoId)
          => Registered(TableOfId(calls[k].table), calls[k].record_id)
    /\ \A t \in DOMAIN id_mappings : \A s \in DOMAIN id_mappings[t] :
          \E k \in 1..Len(calls) :
             /\ ReturnedRow(calls[k])
             /\ TableOfId(calls[k].table) = t
             /\ calls[k].record_id = s

\* C2: whenever the resolver reads the registry of a referenced table R for a
\* record of table T, R stands strictly earlier than T in import_order.
C2_ReferencedTableEarlier ==
    \A l \in lookups : PositionOf(l.source_table) < PositionOf(l.table)

\* The location_id values of the record's '_nc_m2m_infrastructure_locations'
\* payload, in payload order.
LocationIdsOf(item) ==
    LET v == RecordGet(item.e, "_nc_m2m_infrastructure_locations")
    IN IF item.isdict /\ v.t = "list"
       THEN [j \in 1..Len(v.l) |-> DictGet(v.l[j].d, "location_id")]
       ELSE <<>>

\* The record under way is an Infrastructure record whose location payload is
\* not empty and names registered Location ids only, and the destination
\* table has the link field linked_location.
LocationsAllRegistered ==
    /\ AtRecord
    /\ CurrentTable = "Infrastructure"
    /\ LocationIdsOf(items[i]) # <<>>
    /\ \A j \in 1..Len(LocationIdsOf(items[i])) :
          Registered("Location", LocationIdsOf(items[i])[j])
    /\ get_field_by_name(table_schemas["Infrastructure"], "linked_location")
          # NoField

\* The step creates the row of the record under way and then issues exactly
\* one patch of that row, setting linked_location to the registered rows in
\* payload order; or the destination did not return a row to the create call.
CreatedThenLinked ==
    LET ids == LocationIdsOf(items[i])
        field_info ==
            get_field_by_name(table_schemas["Infrastructure"], "linked_location")
    IN /\ Len(NewCalls) >= 1
       /\ NewCalls[1].op = "create_row"
       /\ NewCalls[1].table = CurrentTableId
       /\ ReturnedRow(NewCalls[1])
          => /\ Len(NewCalls) = 2
             /\ NewCalls[2].op = "update_row"
             /\ NewCalls[2].table = CurrentTableId
             /\ NewCalls[2].row = NewCalls[1].row
             /\ FieldId(field_info.id) \in DOMAIN NewCalls[2].links
             /\ NewCalls[2].links[FieldId(field_info.id)] =
                   [j \in 1..Len(ids) |-> id_mappings["Location"][ids[j]]]

\* C3 (as stated): an Infrastructure record, even one that consists of an 'Id'
\* and the location payload only, whose payload ids are all registered is
\* created and then patched with linked_location set to the registered rows
\* in payload order.
C3_Original ==
    [][LocationsAllRegistered => CreatedThenLinked]_vars

\* C3: an Infrastructure record that yields at least one plain field and whose
\* location payload names registered Location ids only is created and then
\* patched once, linked_location set to the registered rows in payload order
\* (the destination returning the row to the create call).
C3_CreatedThenLinked ==
    [][(LocationsAllRegistered /\ HasPlainField) => CreatedThenLinked]_vars

\* A two-location payload was resolved, in payload order, to two distinct rows.
C3_Witness ==
    /\ Processed(InfraTrunk, 1)
    /\ Registered("Location", 1) /\ Registered("Location", 2)
    /\ id_mappings["Location"][1] # id_mappings["Location"][2]
    /\ calls[Len(calls)].op = "update_row"
    /\ \E fid \in DOMAIN calls[Len(calls)].links :
          calls[Len(calls)].links[fid] =
             <<id_mappings["Location"][2], id_mappings["Location"][1]>>

\* The record under way carries relationship payloads, at least one of them
\* with an element, and none of them can be linked: every source id it names
\* is absent from the registry, or its link field is missing from the schema.
NothingToLink ==
    /\ AtRecord
    /\ items[i].isdict
    /\ LET rels == extract_relationships(items[i].e)
       IN /\ \E r \in 1..Len(rels) : Len(rels[r].v) > 0
          /\ \A r \in 1..Len(rels) :
                LET mapping == routing_entry(CurrentTable, rels[r].k)
                IN \/ mapping = NoRouting
                   \/ get_field_by_name(table_schemas[CurrentTable],
                                        mapping.field_name) = NoField
                   \/ \A j \in 1..Len(rels[r].v) :
                         ~Registered(mapping.source_table,
                                     old_ids_of(mapping, rels[r].v)[j])

\* The step creates the record's row and, the destination returning it, makes
\* no patch call, counts one success and no error.
CreatedUnlinked ==
    /\ Len(NewCalls) >= 1
    /\ NewCalls[1].op = "create_row"
    /\ NewCalls[1].table = CurrentTableId
    /\ ReturnedRow(NewCalls[1])
       => /\ Len(NewCalls) = 1
          /\ success_count' = success_count + 1
          /\ error_count' = error_count

\* C4 (as stated): any record whose payloads reference absent ids only, or
\* whose link field is missing from the schema, is created, counted as a
\* success and not as an error, and not patched.
C4_Original ==
    [][NothingToLink => CreatedUnlinked]_vars

\* C4: a record that yields at least one plain field and whose payloads
\* reference absent ids only, or whose link field is missing from the schema,
\* is created, counted as a success and not as an error, and no patch call
\* is made for it.
C4_CreatedUnlinked ==
    [][(NothingToLink /\ HasPlainField) => CreatedUnlinked]_vars

\* An infrastructure record was created while its location was not registered.
C4_Witness ==
    /\ Processed(InfraPipeline, 1)
    /\ ~Registered("Location", 1)
    /\ success_count = 1 /\ error_count = 0
    /\ ReturnedRow(calls[Len(calls)])
    /\ calls[Len(calls)].record_id = 11

\* The source ids the record carries under the payload key of a routing
\* entry: the id_field of each join row of the list under the key, or the
\* 'Id' of the object under the key that follows "object_".
SourceIdsIn(item, mapping) ==
    UNION {IF e.v.t = "list" /\ Chars(e.k) = Chars(mapping.key)
              /\ ~mapping.direct_id
           THEN {DictGet(e.v.l[j].d, mapping.id_field) : j \in 1..Len(e.v.l)}
           ELSE IF e.v.t = "dict"
                   /\ Chars("object_") \o Chars(e.k) = Chars(mapping.key)
                   /\ mapping.direct_id
           THEN {DictGet(e.v.d, "Id")}
           ELSE {} :
           e \in {item[p] : p \in 1..Len(item)}}

\* The link update c, sent for the record under way, names under every field
\* a non-empty list of rows, each of them the registry's value for a source
\* id the record carries under a key routed to that field.
LinksFromRegistry(c) ==
    \A fid \in DOMAIN c.links :
       /\ c.links[fid] # <<>>
       /\ \E mapping \in RoutingOf(CurrentTable) :
             LET field_info == get_field_by_name(table_schemas[CurrentTable],
                                                 mapping.field_name)
             IN /\ field_info # NoField
                /\ FieldId(field_info.id) = fid
                /\ \A p \in 1..Len(c.links[fid]) :
                      \E s \in SourceIdsIn(items[i].e, mapping) :
                         /\ s \in DOMAIN id_mappings'[mapping.source_table]
                         /\ id_mappings'[mapping.source_table][s] = c.links[fid][p]

\* C5: every id in a link update is the registry's value for a source id of
\* the record's payload; an id absent from the registry contributes nothing,
\* and no field is sent with an empty list.
C5_LinksAreRegistryValues ==
    [][AtRecord
       => \A k \in 1..Len(NewCalls) :
             NewCalls[k].op = "update_row" => LinksFromRegistry(NewCalls[k])]_vars

\* A payload of three ids, one of them registered, was resolved to one row.
C5_Witness ==
    /\ Processed(InfraDepot, 1)
    /\ Registered("Location", 1) /\ ~Registered("Location", 3)
    /\ calls[Len(calls)].op = "update_row"
    /\ \E fid \in DOMAIN calls[Len(calls)].links :
          calls[Len(calls)].links[fid] = <<id_mappings["Location"][1]>>

\* The step under way processes a record whose loop body raises: the item is
\* no object, or a call on the destination fails.
BodyRaises ==
    \/ ~items[i].isdict
    \/ \E k \in 1..Len(NewCalls) : ~NewCalls[k].ok

\* C6: a record whose processing raises is counted as one error and the loop
\* goes on to the next record of the same file: the run is not aborted, and
\* the table's statistics are stored only once every record was attempted.
C6_FailureDoesNotAbort ==
    [][/\ AtRecord
          => /\ pc' = "records"
             /\ items' = items
             /\ i' = i + 1
             /\ phase' = phase
             /\ exit_code' = exit_code
             /\ BodyRaises => error_count' = error_count + 1
       /\ migration_stats' # migration_stats
          => /\ pc = "records"
             /\ i = Len(items) + 1
             /\ migration_stats'[CurrentTable].total = Len(items)]_vars

\* The first record's create call failed and the second record was created.
C6_Witness ==
    /\ pc = "records" /\ i = 3
    /\ success_count = 1 /\ error_count = 1
    /\ calls[Len(calls) - 1].op = "create_row" /\ ~calls[Len(calls) - 1].ok
    /\ ReturnedRow(calls[Len(calls)])

\* C7: a record whose transformation yields no plain field makes no call on
\* the destination, adds no registry entry and is counted as an error.
C7_EmptyRecordSkipped ==
    [][(AtRecord /\ items[i].isdict /\ ~HasPlainField)
       => /\ calls' = calls
          /\ id_mappings' = id_mappings
          /\ dest_rows' = dest_rows
          /\ error_count' = error_count + 1
          /\ success_count' = success_count]_vars

\* A record whose only field normalises to null was skipped and counted.
C7_Witness ==
    /\ Processed(RoleUndated, 1)
    /\ error_count = 1 /\ success_count = 0
    /\ \A k \in 1..Len(calls) : calls[k].op # "create_row"

\* C8: a dry run makes no create, update or delete call and leaves the
\* registry empty and the destination's rows as they were, and for every
\* table whose file loads it reports the number of records of the file.
C8_DryRunWritesNothing ==
    /\ [](dry_run
          => /\ \A k \in 1..Len(calls) :
                   calls[k].op \notin {"create_row", "update_row", "delete_row"}
             /\ id_mappings = EmptyMap)
    /\ [][dry_run
          => /\ dest_rows' = dest_rows
             /\ reported' # reported
                => reported' = Put(reported, CurrentTable,
                                   records_read' - records_read)]_vars

\* A dry run with --clear over a filled destination has reported a file of
\* two records and ended.
C8_Witness ==
    /\ dry_run /\ clear_tables
    /\ pc = "done" /\ exit_code = 0
    /\ "Location" \in DOMAIN reported /\ reported["Location"] = 2
    /\ dest_rows[TableIdOf("Location")] # {}

\* C9: once a record of table T with source id S has been created as row D,
\* looking (T, S) up in the registry gives D, also after further records.
C9_LookupGivesCreatedRow ==
    \A k \in 1..Len(calls) :
       (ReturnedRow(calls[k]) /\ calls[k].record_id # NoId)
       => registry_lookup(id_mappings, TableOfId(calls[k].table),
                          calls[k].record_id) = calls[k].row

\* The field of the table's schema a payload key field_<id> names.
FieldOfKey(table_name, fid) ==
    LET fields == table_schemas[table_name].fields
    IN {fields[p] : p \in {q \in 1..Len(fields) : FieldId(fields[q].id) = fid}}

\* C10: no create payload holds a value under a field the destination schema
\* types as link_row.
C10_NoLinkFieldInCreate ==
    \A k \in 1..Len(calls) :
       calls[k].op = "create_row"
       => \A fid \in DOMAIN calls[k].fields :
             \A f \in FieldOfKey(TableOfId(calls[k].table), fid) :
                f.type # "link_row"

\* A record holding a value under the name of a link field was created.
C10_Witness ==
    /\ Processed(InfraDepot, 1)
    /\ get_field_by_name(table_schemas["Infrastructure"], "linked_location")
          # NoField
    /\ get_field_by_name(table_schemas["Infrastructure"],
                         "linked_location").type = "link_row"
    /\ \E k \in 1..Len(calls) :
          calls[k].op = "create_row" /\ calls[k].record_id = 12

\* The positions of the patch calls among the calls of the step under way.
PatchCalls == {k \in 1..Len(NewCalls) : NewCalls[k].op = "update_row"}

\* The step under way issues at most one patch; the patch directly follows
\* the record's create call, which returned a row, targets that row, and
\* carries a non-empty link update.
OnePatchOnCreatedRow ==
    /\ Cardinality(PatchCalls) <= 1
    /\ \A k \in PatchCalls :
          /\ k = 2
          /\ ReturnedRow(NewCalls[1])
          /\ NewCalls[1].record_id = old_id_of(items[i].e)
          /\ NewCalls[k].table = NewCalls[1].table
          /\ NewCalls[k].row = NewCalls[1].row
          /\ NewCalls[k].links # EmptyMap

\* When the step under way issues a patch for a record that carries an 'Id',
\* the registry holds by then the record's entry, the row the create returned.
PatchAfterEntryStored ==
    \A k \in PatchCalls :
       NewCalls[1].record_id # NoId
       => /\ CurrentTable \in DOMAIN id_mappings'
          /\ NewCalls[1].record_id \in DOMAIN id_mappings'[CurrentTable]
          /\ id_mappings'[CurrentTable][NewCalls[1].record_id] = NewCalls[1].row

\* C11: for each record at most one patch call is issued, after the record's
\* create call has returned and its registry entry was stored and before the
\* next record's create call, on the row the create returned; none is issued
\* when nothing resolved.
C11_OnePatchAfterRegistration ==
    [][AtRecord => (OnePatchOnCreatedRow /\ PatchAfterEntryStored)]_vars

\* The step under way issues a patch call that fails, after the record's
\* create call returned a row.
PatchFails ==
    /\ AtRecord
    /\ \E k \in PatchCalls : ~NewCalls[k].ok
    /\ ReturnedRow(NewCalls[1])

\* The record of the step under way counts as an error and not as a success,
\* and its row stays in the destination.
CountedAsErrorRowKept ==
    /\ error_count' = error_count + 1
    /\ success_count' = success_count
    /\ NewCalls[1].row \in dest_rows'[CurrentTableId]

\* The registry holds the entry of the record of the step under way, for a
\* record that carries an 'Id': its source id gives the row created.
EntryKept ==
    NewCalls[1].record_id # NoId
    => registry_lookup(id_mappings', CurrentTable, NewCalls[1].record_id)
          = NewCalls[1].row

\* No step removes an entry of the registry, and only the clearing of a
\* table, before its import, removes rows.
NothingRolledBack ==
    /\ \A t \in DOMAIN id_mappings :
          /\ t \in DOMAIN id_mappings'
          /\ DOMAIN id_mappings[t] \subseteq DOMAIN id_mappings'[t]
    /\ pc # "clear" => \A t \in DOMAIN dest_rows : dest_rows[t] \subseteq dest_rows'[t]

\* C12: when the patch call of a record fails after its create call
\* succeeded, the record is counted as an error and not as a success, the
\* created row is not deleted, and the record's registry entry remains, so
\* that later tables can resolve relationships to it.
C12_FailedPatchKeepsRecord ==
    [][/\ PatchFails => (CountedAsErrorRowKept /\ EntryKept)
       /\ NothingRolledBack]_vars

\* Discovery is over and it failed: the table listing call failed, or an
\* expected table name has no match among the destination's tables.
DiscoveryFailed ==
    /\ pc \notin {"main", "discover"}
    /\ Len(calls) >= 1
    /\ calls[1].op = "list_tables"
    /\ \/ ~calls[1].ok
       \/ \E p \in 1..Len(expected_tables) :
             expected_tables[p] \notin DOMAIN table_mappings

\* C13: if an expected table has no match among the destination's tables, or
\* the table listing call fails, the run stops before schema loading: no
\* field-listing, create, patch or delete call is issued, no schema is
\* loaded and no table is imported.
C13_DiscoveryFailureStopsRun ==
    DiscoveryFailed
    => /\ pc = "done"
       /\ Len(calls) = 1
       /\ table_schemas = EmptyMap
       /\ id_mappings = EmptyMap
       /\ migration_stats = EmptyMap
       /\ reported = EmptyMap
       /\ files_opened = 0

\* The listing was answered, an expected table was missing and the run ended.
C13_Witness ==
    /\ DiscoveryFailed
    /\ calls[1].ok
    /\ pc = "done"
    /\ "Location" \in DOMAIN table_mappings

\* C14: once discovery and schema loading have succeeded (the order of the
\* run is set), the run ends only by its final summary, every table of the
\* order visited, whatever the destination's create, patch, row-listing or
\* delete calls answer.
C14_RunReachesSummary ==
    (pc = "done" /\ Len(order) > 0)
    => (phase = Len(order) + 1 /\ exit_code = 0)

\* An exception escaped to main: the manager's construction raised (no call
\* was made yet), or the last call of the run is a field listing or a row
\* listing that failed, which nothing catches.
ExceptionEscaped ==
    \/ calls = <<>>
    \/ /\ calls # <<>>
       /\ calls[Len(calls)].op \in {"list_fields", "list_rows"}
       /\ ~calls[Len(calls)].ok

\* C15: main returns 0 whenever run_migration returns normally, also when
\* records failed or tables were skipped, and 1 exactly when an exception
\* escaped the manager's construction or run_migration; while the run goes
\* on there is no exit code.
C15_ExitCode ==
    /\ pc = "done" => /\ exit_code \in {0, 1}
                      /\ exit_code = 1 <=> ExceptionEscaped
    /\ pc # "done" => exit_code = NoId

\* A run in which a create call failed and a table had no file ended with 0.
C15_Witness ==
    /\ pc = "done" /\ exit_code = 0
    /\ \E t \in DOMAIN migration_stats : migration_stats[t].errors > 0
    /\ \E k \in 1..Len(calls) : calls[k].op = "create_row" /\ ~calls[k].ok
    /\ files_opened < Len(order)

\* The tables of the order the run has passed without loading a record list:
\* their source file was missing, unparsable, or of an unexpected structure.
PassedUnloaded ==
    {order[q] : q \in {p \in 1..Len(order) : p < phase}} \ DOMAIN reported

\* The step under way passes the current table because its source file is
\* missing (run_migration's loop head) or cannot be used (the load).
SkipsFile ==
    \/ pc = "tables" /\ pc' = "tables"
    \/ pc = "load" /\ pc' = "tables" /\ reported' = reported

\* C16: when a table's source file is missing, cannot be parsed or has an
\* unexpected structure, no create or patch call is made for that table, the
\* registry and the statistics stay as they were, and the run continues with
\* the next table of the order.
C16_UnusableFileSkipsTable ==
    /\ [](\A t \in PassedUnloaded :
             /\ \A k \in 1..Len(calls) :
                   calls[k].op \in {"create_row", "update_row"}
                   => calls[k].table # table_mappings[t]
             /\ t \notin DOMAIN id_mappings
             /\ t \notin DOMAIN migration_stats)
    /\ [][SkipsFile
          => /\ phase' = phase + 1
             /\ exit_code' = exit_code
             /\ calls' = calls
             /\ id_mappings' = id_mappings
             /\ migration_stats' = migration_stats]_vars

\* Location was imported, then the file of Role could not be used and the run
\* went on to the third table.
C16_Witness ==
    /\ pc = "tables" /\ phase = 3
    /\ files_opened = 2
    /\ "Location" \in DOMAIN id_mappings
    /\ "Role" \in PassedUnloaded

\* The positions of the calls that write to the destination.
WriteCalls ==
    {k \in 1..Len(calls) :
        calls[k].op \in {"create_row", "update_row", "delete_row"}}

\* C17: with --table naming a table of the import order, create, patch and
\* delete calls go to that table only and only that table gains registry and
\* statistics entries; with a name that is not in the import order no create,
\* patch or delete call is made at all.
C17_FilterConfinesRun ==
    target_table # ""
    => /\ \A k \in WriteCalls :
             /\ target_table \in TableNames
             /\ target_table \in DOMAIN table_mappings
             /\ calls[k].table = table_mappings[target_table]
       /\ DOMAIN id_mappings \subseteq {target_table} \cap TableNames
       /\ DOMAIN migration_stats \subseteq {target_table} \cap TableNames

\* A run filtered to Infrastructure has cleared that table, created a row in
\* it and ended.
C17_Witness ==
    /\ target_table = "Infrastructure"
    /\ pc = "done" /\ exit_code = 0
    /\ "Infrastructure" \in DOMAIN migration_stats
    /\ "Infrastructure" \in DOMAIN id_mappings
    /\ \E k \in WriteCalls : calls[k].op = "delete_row"
    /\ \E k \in WriteCalls : calls[k].op = "create_row"

RowsDeleted ==
    {k \in 1..Len(calls) :
        /\ calls[k].op = "delete_row"
        /\ calls[k].table = CurrentTableId
        /\ calls[k].ok}

\* clear_table returns: the loop found no row left.
ClearReturns == pc = "clear" /\ pc' = "load"

\* A round of clear_table's loop is followed by a further round.
ClearGoesOn == pc = "clear" /\ pc' = "clear"

\* When clear_table returns the table is empty and the count it returns is
\* the number of rows deleted.
ClearedAndCounted ==
    /\ dest_rows'[CurrentTableId] = {}
    /\ deleted_count' = Cardinality(RowsDeleted)

\* C19: with --clear and without --dry-run clear_table terminates: the rows
\* of the table being finitely many, every round that is followed by another
\* leaves fewer rows than it found; and when it returns, every row the table
\* held is deleted and the count returned is the number of rows deleted.
C19_ClearTerminatesEmpty ==
    [][/\ ClearGoesOn
          => Cardinality(dest_rows'[CurrentTableId])
                < Cardinality(dest_rows[CurrentTableId])
       /\ ClearReturns => ClearedAndCounted]_vars

\* A string of four digits.
FourDigitYear(s) == Len(s) = 4 /\ IsDigit(s)

\* A string of the form YYYY-MM-DD.
PlainDate(s) ==
    /\ Len(s) = 10
    /\ \A p \in {1, 2, 3, 4, 6, 7, 9, 10} : IsDigitChar(s[p])
    /\ s[5] = "-" /\ s[8] = "-"

\* A string of the form YYYY-MM-DD followed by 'T' and anything.
DateThenT(s) ==
    Len(s) >= 11 /\ PlainDate(SubSeq(s, 1, 10)) /\ s[11] = "T"

\* C20: both date normalizers map a 4-digit year string v to v followed by
\* '-01-01', a string of the form YYYY-MM-DD followed by 'T' and anything to
\* its first 10 characters, and a string of the form YYYY-MM-DD to itself.
C20_DateShapes ==
    \A k \in 1..Len(fn_results) :
       pc = "call"
       => /\ FourDigitYear(fn_args.s)
             => fn_results[k].value =
                   VChars(fn_args.s \o <<"-", "0", "1", "-", "0", "1">>)
          /\ DateThenT(fn_args.s)
             => fn_results[k].value = VChars(SubSeq(fn_args.s, 1, 10))
          /\ PlainDate(fn_args.s)
             => fn_results[k].value = VChars(fn_args.s)

\* Both normalizers have cut a datetime down to its date.
C20_Witness ==
    /\ pc = "call"
    /\ Len(fn_results) = 2
    /\ DateThenT(fn_args.s) /\ Len(fn_args.s) > 11
    /\ fn_results[1].value = fn_results[2].value
    /\ fn_results[1].value.t = "str"
    /\ Len(fn_results[1].value.s) = 10

\* A string that, leading and trailing white space set aside, has none of the
\* three accepted date shapes.
Unshaped(s) ==
    /\ ~FourDigitYear(Strip(s))
    /\ ~DateThenT(Strip(s))
    /\ ~PlainDate(Strip(s))

\* C21: for every string of none of the three accepted date shapes (4 digits;
\* YYYY-MM-DD followed by 'T'; YYYY-MM-DD) date normalization returns null,
\* so that _transform_value gives transform_record_data nothing to write
\* under the date field.
C21_UnshapedDatesAreNull ==
    \A k \in 1..Len(fn_results) :
       (pc = "call" /\ Unshaped(fn_args.s))
       => fn_results[k].value = VNone

\* The string form of a value, lower-cased, is 'true', '1', 'yes' or 'on'.
SaysTrue(value) ==
    \E word \in {<<"t", "r", "u", "e">>, <<"1">>, <<"y", "e", "s">>,
                 <<"o", "n">>} :
       LET str_value == StrOf(value)
       IN /\ Len(str_value) = Len(word)
          /\ \A p \in 1..Len(word) : LowerChar(str_value[p]) = word[p]

\* C22: _normalize_boolean returns true exactly when its argument is the
\* boolean true or its string form, lower-cased, is one of 'true', '1',
\* 'yes', 'on'; for every other value it returns false; it always returns.
C22_BooleanWords ==
    \A k \in 1..Len(fn_results) :
       fn_results[k].by = "boolean"
       => /\ fn_results[k].value \in {VBool(TRUE), VBool(FALSE)}
          /\ fn_results[k].value = VBool(TRUE)
             <=> (fn_args = VBool(TRUE) \/ SaysTrue(fn_args))

\* A word for true in mixed case was accepted.
C22_Witness ==
    /\ Len(fn_results) = 1
    /\ fn_results[1].by = "boolean"
    /\ fn_args = VChars(<<"Y", "e", "S">>)
    /\ fn_results[1].value = VBool(TRUE)

\* A value of the canonical form YYYY-MM-DD.
CanonicalDate(value) == value.t = "str" /\ PlainDate(value.s)

\* C23: the plain-field transform date-normalizes a value when its
\* destination field has type date or its source field name holds a date
\* indicator, so every value a create payload holds under a destination
\* field of type date has the form YYYY-MM-DD, whatever the field's name.
C23_DateFieldsGetDates ==
    \A k \in 1..Len(calls) :
       calls[k].op = "create_row"
       => \A fid \in DOMAIN calls[k].fields :
             \A f \in FieldOfKey(TableOfId(calls[k].table), fid) :
                f.type = "date" => CanonicalDate(calls[k].fields[fid])

\* An entry of a record that looks like a numeric reference: its value is an
\* integer or a string of digits only and its name holds a relation keyword.
LooksLikeReference(e) ==
    /\ e.v.t \in {"int", "str"}
    /\ IsDigit(StrOf(e.v))
    /\ \E ref_word \in ref_words :
          Contains(Lower(Chars(e.k)), Chars(ref_word))

\* C24: in the automatic name matching of transform_record_data (the source
\* field is absent from the static mapping) a field that looks like a numeric
\* reference is never written into the create payload, whether or not the
\* destination schema has a field of the same name.
C24_ReferencesNotWritten ==
    [][(AtRecord /\ items[i].isdict)
       => \A p \in 1..Len(items[i].e) :
             LET e == items[i].e[p]
                 field_info == get_field_by_name(table_schemas[CurrentTable],
                                                 e.k)
             IN (/\ e.k \notin DOMAIN field_mapping
                 /\ LooksLikeReference(e)
                 /\ field_info # NoField)
                => \A k \in 1..Len(NewCalls) :
                      NewCalls[k].op = "create_row"
                      => FieldId(field_info.id) \notin DOMAIN NewCalls[k].fields]_vars

\* The positions of the calls made for a table's import: row listings,
\* deletes, creates and patches.
ImportCalls ==
    {k \in 1..Len(calls) :
        calls[k].op \in {"list_rows", "delete_row", "create_row", "update_row"}}

\* The table listing was answered and the fields of every expected table
\* were listed, before the k-th call.
SetUpBefore(k) ==
    /\ \E d \in 1..(k - 1) : calls[d].op = "list_tables" /\ calls[d].ok
    /\ \A t \in DOMAIN table_mappings :
          \E s \in 1..(k - 1) :
             /\ calls[s].op = "list_fields" /\ calls[s].ok
             /\ calls[s].table = table_mappings[t]
    /\ DOMAIN table_mappings =
          {expected_tables[p] : p \in 1..Len(expected_tables)}
    /\ DOMAIN table_schemas = DOMAIN table_mappings

\* C25: the run follows the fixed phase order: no call of a table's import is
\* made before discover_tables has succeeded and initialize_schemas has
\* completed; the tables are imported one at a time in import_order, every
\* call for a table made before the first call for the next; and the final
\* summary is produced only after the last table.
C25_PhaseOrder ==
    /\ [](/\ \A k \in ImportCalls : SetUpBefore(k)
          /\ \A k \in ImportCalls : \A l \in ImportCalls :
                k < l => PositionOf(TableOfId(calls[k].table))
                            <= PositionOf(TableOfId(calls[l].table))
          /\ ImportCalls # {} => pc \notin {"main", "discover", "schemas"})
    /\ [][(pc = "tables" /\ pc' = "done")
          => (phase = Len(order) + 1 /\ exit_code' = 0)]_vars

\* Two tables were imported, the second after the first, and the summary
\* was reached.
C25_Witness ==
    /\ pc = "done" /\ exit_code = 0
    /\ phase = Len(order) + 1
    /\ \E k \in ImportCalls : \E l \in ImportCalls :
          /\ k < l
          /\ calls[k].op = "create_row" /\ calls[l].op = "create_row"
          /\ calls[k].table = TableIdOf("Location")
          /\ calls[l].table # TableIdOf("Location")

\* The result a function called on its own has returned.
HasResult(by) == \E k \in 1..Len(fn_results) : fn_results[k].by = by

ResultOf(by) ==
    fn_results[CHOOSE k \in 1..Len(fn_results) : fn_results[k].by = by].value

\* The entries of a record, and those with a relationship key or an object
\* holding 'Id' as value.
EntriesOf(record) == {record[p] : p \in 1..Len(record)}

Prefixed(e) == StartsWith(Chars(e.k), Chars("_nc_m2m_"))

ObjectWithId(e) == e.v.t = "dict" /\ DictHas(e.v.d, "Id")

\* The entry 'object_<key>' -> [Id] of an entry holding an object with 'Id'.
ObjectEntry(e) ==
    [k |-> Chars("object_") \o Chars(e.k),
     v |-> <<DirectId(DictGet(e.v.d, "Id"))>>]

\* The result of extract_relationships holds exactly the entries expected,
\* once each.
ExtractedExactly(expected) ==
    /\ EntriesOf(ResultOf("extract_relationships")) = expected
    /\ Len(ResultOf("extract_relationships")) = Cardinality(expected)

\* The entries of the record under a key extract_relationships has returned
\* a payload for.
ExtractedFrom(record) ==
    {e \in EntriesOf(record) :
        \E r \in EntriesOf(ResultOf("extract_relationships")) :
           r.k \in {Chars(e.k), Chars("object_") \o Chars(e.k)}}

\* No key is handled both ways: the create payload is the one the record
\* gives without the entries extracted as relationship payloads.
NeverBoth ==
    (HasResult("extract_relationships") /\ HasResult("transform_record_data"))
    => ResultOf("transform_record_data") =
          transform_record_data(
             SelectSeq(fn_args[1],
                       LAMBDA e : e \notin ExtractedFrom(fn_args[1])),
             create_field_mapping(table_schemas, fn_args[2]),
             fn_args[2], table_schemas)

\* C26 (as stated): extract_relationships returns, for each key starting with
\* '_nc_m2m_', its value unchanged, and for each other key whose value is an
\* object containing 'Id' the key 'object_<key>' with the list of that Id; no
\* key is handled both as a relationship payload and as a plain field.
C26_Original ==
    /\ HasResult("extract_relationships")
       => ExtractedExactly(
             {[k |-> Chars(e.k), v |-> PayloadOfList(e.v.l)] :
                 e \in {x \in EntriesOf(fn_args[1]) : Prefixed(x)}}
             \cup {ObjectEntry(e) :
                     e \in {x \in EntriesOf(fn_args[1]) :
                              ~Prefixed(x) /\ ObjectWithId(x)}})
    /\ NeverBoth

\* C26: extract_relationships returns exactly these entries: for each key
\* starting with '_nc_m2m_' whose value is a list, that list unchanged, and
\* for each other entry (a key without the prefix, or with it and a value
\* that is no list) whose value is an object containing 'Id', the key
\* 'object_<key>' with the one-element list of that Id; no key is handled
\* both as a relationship payload and as a plain field, so no relationship
\* payload reaches the create payload.
C26_ExtractedEntries ==
    /\ HasResult("extract_relationships")
       => ExtractedExactly(
             {[k |-> Chars(e.k), v |-> PayloadOfList(e.v.l)] :
                 e \in {x \in EntriesOf(fn_args[1]) :
                          Prefixed(x) /\ x.v.t = "list"}}
             \cup {ObjectEntry(e) :
                     e \in {x \in EntriesOf(fn_args[1]) :
                              /\ ~(Prefixed(x) /\ x.v.t = "list")
                              /\ ObjectWithId(x)}})
    /\ NeverBoth

\* A record with a join-row list and one with an object under 'author' were
\* split: the payloads extracted, the plain fields written without them.
C26_Witness ==
    /\ pc = "call"
    /\ HasResult("extract_relationships")
    /\ HasResult("transform_record_data")
    /\ fn_args = <<OilLetter.e, "Discursive-oil">>
    /\ Len(ResultOf("extract_relationships")) = 1
    /\ ResultOf("transform_record_data") # EmptyMap

\* The fields of a table's loaded schema whose name is name, letter case set
\* aside, by position.
FieldsNamed(table_name, name) ==
    {q \in 1..Len(table_schemas[table_name].fields) :
        Lower(Chars(table_schemas[table_name].fields[q].name))
           = Lower(Chars(name))}

\* C27: create_field_mapping returns, for a table, exactly the source field
\* keys of the static mapping whose destination field name matches a schema
\* field case-insensitively, each mapped to 'field_<id>' of the first such
\* field; entries without a match are dropped, and a table with no loaded
\* schema yields the empty mapping.
C27_FieldMapping ==
    HasResult("create_field_mapping")
    => LET table_name == fn_args[2]
           mapping == ResultOf("create_field_mapping")
       IN IF table_name \notin DOMAIN table_schemas
          THEN mapping = EmptyMap
          ELSE /\ DOMAIN mapping =
                     {p[1] : p \in {x \in FieldMappingOf(table_name) :
                                       FieldsNamed(table_name, x[2]) # {}}}
               /\ \A p \in FieldMappingOf(table_name) :
                     \A q \in FieldsNamed(table_name, p[2]) :
                        (\A r \in FieldsNamed(table_name, p[2]) : q <= r)
                        => mapping[p[1]] =
                              FieldId(table_schemas[table_name].fields[q].id)

\* The mapping of Location against a schema whose names differ in case from
\* the static mapping's: 'location' goes to the field named 'name'.
C27_Witness ==
    /\ pc = "call"
    /\ HasResult("create_field_mapping")
    /\ fn_args[2] = "Location"
    /\ "Location" \in DOMAIN table_schemas
    /\ table_schemas["Location"].fields[1].name = "name"
    /\ "location" \in DOMAIN ResultOf("create_field_mapping")
    /\ ResultOf("create_field_mapping")["location"] = FieldId(1)
    /\ "latitude (N)" \notin DOMAIN ResultOf("create_field_mapping")

\* A request of fetch_all_data has failed and the page is asked for again.
RetryStep == pc = "fetch" /\ frame'.failures = frame.failures + 1

\* The number of retries of a page a bounded retry loop would allow.
RetryLimit == 3

\* C28: fetch_all_data retries a failed page request with a delay that grows
\* exponentially with the number of successive failed attempts (each further
\* failure at least doubles it) and never exceeds 10 seconds, and the number
\* of retries of a page is bounded by a small constant, so that
\* fetch_all_data terminates even when the requests for a page keep failing.
C28_BoundedBackoff ==
    /\ [](pc \in {"fetch", "fetched"}
          => /\ frame.retry_delay <= 10
             /\ frame.failures <= RetryLimit)
    /\ [][(RetryStep /\ frame.failures >= 1)
          => \/ frame'.retry_delay >= 2 * frame.retry_delay
             \/ frame'.retry_delay = 10]_vars

\* C29: the statistics import_table_data stores for a table satisfy
\* success + errors = total, total being the number of records of the source
\* file: every record is counted exactly once, as a success or as an error,
\* whatever the create and patch calls raise or return.
C29_CountedOnce ==
    /\ \A t \in DOMAIN migration_stats :
          migration_stats[t].success + migration_stats[t].errors
             = migration_stats[t].total
    /\ pc = "records" => success_count + error_count = i - 1

\* C30: every destination id the registry holds for a table is the id a
\* create call of this run against that table returned; the delete calls for
\* a table come before its first create call, so the run never deletes a row
\* it created; and at every point of the run every registry value refers to
\* a row the destination still holds.
C30_RegistryRowsExist ==
    /\ \A t \in DOMAIN id_mappings : \A s \in DOMAIN id_mappings[t] :
          /\ \E k \in 1..Len(calls) :
                /\ ReturnedRow(calls[k])
                /\ calls[k].table = table_mappings[t]
                /\ calls[k].row = id_mappings[t][s]
          /\ id_mappings[t][s] \in dest_rows[table_mappings[t]]
    /\ \A k \in 1..Len(calls) : \A l \in 1..Len(calls) :
          (/\ calls[k].op = "create_row"
           /\ calls[l].op = "delete_row"
           /\ calls[k].table = calls[l].table)
          => l < k

\* A run with --clear has deleted the rows Location held, created a row in
\* it and registered that row.
C30_Witness ==
    /\ clear_tables /\ ~dry_run
    /\ pc = "done" /\ exit_code = 0
    /\ "Location" \in DOMAIN id_mappings
    /\ \E k \in 1..Len(calls) :
          /\ calls[k].op = "delete_row" /\ calls[k].ok
          /\ calls[k].table = TableIdOf("Location")
    /\ \E s \in DOMAIN id_mappings["Location"] :
          id_mappings["Location"][s] \in dest_rows[TableIdOf("Location")]
====
